---- MODULE Spec2Model ----
(***************************************************************************)
(* State-machine model of the Markdown -> Confluence publisher:            *)
(*   - the remote store as seen through confl_client.Confluence,           *)
(*   - DocsPublisher.bootstrap_existing / ensure_page (reconciliation),    *)
(*   - DocsPublisher.publish_all (tree orchestrator, two-pass publish),    *)
(*   - DocsPublisher._link_resolver and the renderer's link step.          *)
(* Strings that the code builds by concatenation are modelled as tuples of *)
(* their parts, hashes by a table that keeps the truncation of the digest. *)
(***************************************************************************)
EXTENDS Integers, Sequences, FiniteSets, TLC

----------------------------------------------------------------------------
(* Bounds of the model                                                     *)

MaxPages == 3          \* cap on the number of remote pages
MaxCalls == 2          \* cap on the number of ensure_page calls of a behaviour

----------------------------------------------------------------------------
(* Program constants                                                       *)

DEFAULT_MANAGED_LABEL == <<"managed-docs">>
PROPERTY_KEY == "md2conf_source"
SOURCE_KEY == "source"
LEGACY_SRC_LABEL_PREFIX == "src-"
VISIBLE_META_LABELS == {<<"md">>, <<"dir">>, <<"section">>}

NoPage == 0            \* "no page id" (None / missing dict entry)
ROOT == 100            \* cfg.docs_root_id
NoKey == <<>>
NoTitle == <<>>

----------------------------------------------------------------------------
(* Documents, keys, hashes, titles                                         *)

\* A path is the sequence of its segments: docs/d/s/a.md is <<"docs","d","s","a.md">>.
DocPath(name) == <<"docs", "d", "s", name>>
PathA == DocPath("a.md")
PathB == DocPath("b.md")
PathC == DocPath("c.md")
Paths == {PathA, PathB, PathC}

DomainDir == <<"docs", "d">>
SectionDir == <<"docs", "d", "s">>

file_key(p) == <<"file", p>>          \* f"file:{path}"
dir_key(p) == <<"dir", p>>            \* f"dir:{path}"
FileKeys == {file_key(p) : p \in Paths}
DirKeys == {dir_key(DomainDir), dir_key(SectionDir)}
KeyA == file_key(PathA)
KeyB == file_key(PathB)
KeyC == file_key(PathC)

\* hashlib.sha1(key).hexdigest(), kept as <<first 6 hex digits, next 6>>.
\* Truncation to 6 digits is not injective: the keys of a.md and b.md share
\* their first six digits (as file:docs/shopping-cart/features/feature-1550.md
\* and .../feature-3072.md do: 94b6f7); the 12-digit prefixes differ.
_sha1(key) ==
    CASE key = KeyA -> <<"94b6f7", "5d21aa">>
      [] key = KeyB -> <<"94b6f7", "e0c4bb">>
      [] key = KeyC -> <<"1c0ffe", "77d2cc">>
      [] key = dir_key(DomainDir) -> <<"d0d0d0", "111111">>
      [] OTHER -> <<"5ec5ec", "222222">>

_label_for(key) == <<LEGACY_SRC_LABEL_PREFIX, _sha1(key)[1], _sha1(key)[2]>>

IsLegacySrcLabel(lb) == Len(lb) = 3 /\ lb[1] = LEGACY_SRC_LABEL_PREFIX

\* Base titles a document can have (after .strip()); "" is the empty title.
BaseTitles == {"", "Intro", "Dom Intro", "File already exists"}
Prefixes == {"", "Dom"}          \* "" models None / blank collision_prefix

\* str.startswith on the modelled strings
StartsWith(base, pref) ==
    \/ pref = ""
    \/ pref = "Dom" /\ base \in {"Dom", "Dom Intro", "Dom · Sec"}
    \/ pref = "DOCS" /\ base \in {"DOCS"}

RECURSIVE uniq(_, _)
uniq(seq, seen) ==
    IF seq = <<>> THEN <<>>
    ELSE IF Head(seq) \in seen THEN uniq(Tail(seq), seen)
    ELSE <<Head(seq)>> \o uniq(Tail(seq), seen \cup {Head(seq)})

\* (mutant) the hash-suffixed candidate is tried before the prefixed one
title_candidates_hash_first(key, base, collision_prefix) ==
    LET out1 == IF base # "" THEN << <<base>> >> ELSE <<>>
        out2 == Append(out1, <<base, " [", _sha1(key)[1], "]">>)
    IN  IF collision_prefix # "" /\ ~StartsWith(base, collision_prefix)
        THEN Append(out2, <<collision_prefix, " · ", base>>)
        ELSE out2

title_candidates(key, base, collision_prefix) ==
    LET out1 == IF base # "" THEN << <<base>> >> ELSE <<>>
        out2 == IF collision_prefix # "" /\ ~StartsWith(base, collision_prefix)
                THEN Append(out1, <<collision_prefix, " · ", base>>)
                ELSE out1
        out3 == Append(out2, <<base, " [", _sha1(key)[1], "]">>)
    IN  uniq(out3, {})

----------------------------------------------------------------------------
(* Paths, hrefs and DocsPublisher._link_resolver                           *)

\* posixpath.normpath on segment sequences: "." is dropped, ".." removes the
\* segment before it (a leading ".." is kept)
RECURSIVE normpath(_, _)
normpath(done, rest) ==
    IF rest = <<>> THEN done
    ELSE IF Head(rest) = "." THEN normpath(done, Tail(rest))
    ELSE IF Head(rest) = ".." /\ done # <<>> /\ done[Len(done)] # ".."
    THEN normpath(SubSeq(done, 1, Len(done) - 1), Tail(rest))
    ELSE normpath(Append(done, Head(rest)), Tail(rest))

_norm_posix(p) == normpath(<<>>, p)

\* An href as urlparse sees it: scheme, path (segments; abs = leading "/"),
\* fragment.  NoHref is the empty href.
Href(scheme, abs, path, frag) == [scheme |-> scheme, abs |-> abs, path |-> path, frag |-> frag]
NoHref == Href("", FALSE, <<>>, "")

MdNames == {"a.md", "b.md", "c.md", "x.md"}
EndsWithMd(path) == path # <<>> /\ path[Len(path)] \in MdNames

\* the relative view URL: base path, page id, fragment
Url(base_path, page_id, frag) == [base |-> base_path, pid |-> page_id, frag |-> frag]
NoUrl == Url(<<>>, NoPage, "")

\* dict.get on an index
Get(index, x) == IF x \in DOMAIN index THEN index[x] ELSE NoPage

\* (mutant) the network location of base_url goes in front of the context path
base_path_of_with_netloc(base_url) ==
    LET bp == base_url.path
        n == Len(bp)
    IN  <<base_url.host>> \o (IF n >= 2 /\ bp[n - 1] = "rest" /\ bp[n] = "api"
                              THEN SubSeq(bp, 1, n - 2) ELSE bp)

\* the context path of cfg.base_url: its path without a trailing /rest/api
base_path_of(base_url) ==
    LET bp == base_url.path
        n == Len(bp)
    IN  IF n >= 2 /\ bp[n - 1] = "rest" /\ bp[n] = "api" THEN SubSeq(bp, 1, n - 2) ELSE bp

\* (mutant) an href with a leading "/" is not a relative link
_link_resolver_abs_unresolved(p2p, base_url, href, current_path) ==
    IF current_path = <<>> THEN NoUrl
    ELSE IF href.scheme # "" \/ (href.path = <<>> /\ href.frag # "") THEN NoUrl
    ELSE IF href.abs \/ ~EndsWithMd(href.path) THEN NoUrl
    ELSE LET target == _norm_posix(SubSeq(_norm_posix(current_path), 1,
                                          Len(_norm_posix(current_path)) - 1) \o href.path)
             page_id == Get(p2p, target)
         IN  IF page_id = NoPage THEN NoUrl
             ELSE Url(base_path_of(base_url), page_id, href.frag)

\* (mutant) a target that is not in path_to_page still yields a URL
_link_resolver_no_lookup(p2p, base_url, href, current_path) ==
    IF current_path = <<>> THEN NoUrl
    ELSE IF href.scheme # "" \/ (href.path = <<>> /\ href.frag # "") THEN NoUrl
    ELSE IF ~EndsWithMd(href.path) THEN NoUrl
    ELSE LET target == _norm_posix(SubSeq(_norm_posix(current_path), 1,
                                          Len(_norm_posix(current_path)) - 1) \o href.path)
             page_id == Get(p2p, target)
         IN  Url(base_path_of(base_url), page_id, href.frag)

\* _link_resolver: NoUrl stands for None
_link_resolver(p2p, base_url, href, current_path) ==
    IF current_path = <<>> THEN NoUrl
    ELSE IF href.scheme # "" \/ (href.path = <<>> /\ href.frag # "") THEN NoUrl
    ELSE IF ~EndsWithMd(href.path) THEN NoUrl
    ELSE LET target == _norm_posix(SubSeq(_norm_posix(current_path), 1,
                                          Len(_norm_posix(current_path)) - 1) \o href.path)
             page_id == Get(p2p, target)
         IN  IF page_id = NoPage THEN NoUrl
             ELSE Url(base_path_of(base_url), page_id, href.frag)

\* the path an href of a document points to (what _link_resolver looks up)
TargetOfHref(href, current_path) ==
    _norm_posix(SubSeq(current_path, 1, Len(current_path) - 1) \o href.path)

\* A rendered <a>: either href replaced by a URL, or the original href kept,
\* with or without the data-source-href marker (which carries the original).
Link(resolved, url, href, marker) ==
    [resolved |-> resolved, url |-> url, href |-> href, marker |-> marker]
NoLink == Link(FALSE, NoUrl, NoHref, FALSE)

\* (mutant) every link that is not resolved gets the marker
_rewrite_links_mark_all(href, with_resolver, p2p, base_url, current_path) ==
    IF href = NoHref THEN NoLink
    ELSE LET new_href == IF with_resolver
                         THEN _link_resolver(p2p, base_url, href, current_path)
                         ELSE NoUrl
         IN  IF new_href # NoUrl THEN Link(TRUE, new_href, NoHref, FALSE)
             ELSE Link(FALSE, NoUrl, href, TRUE)

\* MdToConfluenceStorage._rewrite_links for one link; with_resolver tells
\* whether the converter was built with link_resolver=self._link_resolver
_rewrite_links(href, with_resolver, p2p, base_url, current_path) ==
    IF href = NoHref THEN NoLink
    ELSE LET new_href == IF with_resolver
                         THEN _link_resolver(p2p, base_url, href, current_path)
                         ELSE NoUrl
         IN  IF new_href # NoUrl THEN Link(TRUE, new_href, NoHref, FALSE)
             ELSE IF EndsWithMd(href.path) THEN Link(FALSE, NoUrl, href, TRUE)
             ELSE Link(FALSE, NoUrl, href, FALSE)

----------------------------------------------------------------------------
(* The remote store (confl_client.Confluence against the server)           *)

NoProp == [key |-> NoKey, title |-> NoTitle, src_hash |-> <<>>, meta_labels |-> {}]

\* A page: remote is a sequence of pages, the page id is the index.
Page(title, under_root, storage, labels, prop, prop2) ==
    [title |-> title, under_root |-> under_root, storage |-> storage,
     labels |-> labels, prop |-> prop, prop2 |-> prop2]

PageIds(rem) == DOMAIN rem

\* server rule: a title is unique within the space
TitleTaken(rem, t, except) == \E q \in PageIds(rem) : q # except /\ rem[q].title = t

IsUnderRoot(rem, parent_id) ==
    parent_id = ROOT \/ (parent_id \in PageIds(rem) /\ rem[parent_id].under_root)

create_page(rem, parent_id, t, storage) ==
    Append(rem, Page(t, IsUnderRoot(rem, parent_id), storage, {}, NoProp, NoProp))

update_page(rem, page_id, parent_id, t, storage) ==
    [rem EXCEPT ![page_id].title = t,
                ![page_id].under_root = IsUnderRoot(rem, parent_id),
                ![page_id].storage = storage]

find_page_by_title(rem, t) ==
    IF \E q \in PageIds(rem) : rem[q].title = t
    THEN CHOOSE q \in PageIds(rem) : rem[q].title = t
    ELSE NoPage

add_labels(rem, page_id, labels) ==
    [rem EXCEPT ![page_id].labels = @ \cup labels]

\* delete_label: ok says whether the server performed the deletion
delete_label(rem, page_id, label, ok) ==
    IF ok THEN [rem EXCEPT ![page_id].labels = @ \ {label}] ELSE rem

put_property(rem, page_id, name, value) ==
    IF name = PROPERTY_KEY THEN [rem EXCEPT ![page_id].prop = value]
    ELSE [rem EXCEPT ![page_id].prop2 = value]

get_property(rem, page_id, name) ==
    IF name = PROPERTY_KEY THEN rem[page_id].prop ELSE rem[page_id].prop2

----------------------------------------------------------------------------
(* Reconciliation engine: DocsPublisher.ensure_page                        *)

AllKeys == FileKeys \cup DirKeys
LegacyLabels == {_label_for(k) : k \in AllKeys}

Attempt(op, page_id, t, res) == [op |-> op, pid |-> page_id, title |-> t, res |-> res]

\* Texts of the server's answers: to a write whose title is taken, and to a
\* write that fails for another reason.
TitleExistsResponse == "A page with this title already exists"
OtherFailureResponse == "Internal Server Error"

\* The RuntimeError messages of the client, as the sequence of their parts:
\* update_page puts the requested title into its message, create_page only
\* the status and the response.
update_error(page_id, t, response) == <<"Update page failed">> \o t \o <<response>>
create_error(response) == <<"Create page failed", response>>

\* "already exists" in s, for the strings of the model
ContainsAlreadyExists(s) == s \in {TitleExistsResponse, "File already exists"}

\* is_title_exists(str(e)): a substring test on the whole message
is_title_exists(err) == \E i \in DOMAIN err : ContainsAlreadyExists(err[i])

\* (mutant) gives up at the first collision instead of trying the next candidate
try_update_no_retry(rem, page_id, cands, i, parent_id, storage, fail_write) ==
    IF fail_write
    THEN [st |-> "other", rem |-> rem, pid |-> page_id, used |-> NoTitle,
          att |-> <<[op |-> "update", pid |-> page_id, title |-> cands[i], res |-> "other"]>>,
          created |-> NoPage]
    ELSE IF TitleTaken(rem, cands[i], page_id)
    THEN [st |-> "exists", rem |-> rem, pid |-> page_id, used |-> NoTitle,
          att |-> <<[op |-> "update", pid |-> page_id, title |-> cands[i], res |-> "exists"]>>,
          created |-> NoPage]
    ELSE [st |-> "ok", rem |-> update_page(rem, page_id, parent_id, cands[i], storage),
          pid |-> page_id, used |-> cands[i],
          att |-> <<[op |-> "update", pid |-> page_id, title |-> cands[i], res |-> "ok"]>>,
          created |-> NoPage]

\* try_update: walk the candidates; fail_write makes the first update_page
\* call fail with OtherFailureResponse.  A failure is retried with the next
\* candidate when is_title_exists accepts its message, else it is raised; when
\* the candidates run out the last error is raised.
RECURSIVE try_update(_, _, _, _, _, _, _)
try_update(rem, page_id, cands, i, parent_id, storage, fail_write) ==
    IF i > Len(cands)
    THEN [st |-> "exists", rem |-> rem, pid |-> page_id, used |-> NoTitle, att |-> <<>>, created |-> NoPage]
    ELSE IF fail_write
    THEN IF is_title_exists(update_error(page_id, cands[i], OtherFailureResponse))
         THEN LET r == try_update(rem, page_id, cands, i + 1, parent_id, storage, FALSE)
              IN  [r EXCEPT !.att = <<Attempt("update", page_id, cands[i], "other")>> \o r.att,
                            !.st = IF r.att = <<>> THEN "other" ELSE r.st]
         ELSE [st |-> "other", rem |-> rem, pid |-> page_id, used |-> NoTitle,
               att |-> <<Attempt("update", page_id, cands[i], "other")>>, created |-> NoPage]
    ELSE IF TitleTaken(rem, cands[i], page_id)
    THEN IF is_title_exists(update_error(page_id, cands[i], TitleExistsResponse))
         THEN LET r == try_update(rem, page_id, cands, i + 1, parent_id, storage, FALSE)
              IN  [r EXCEPT !.att = <<Attempt("update", page_id, cands[i], "exists")>> \o r.att]
         ELSE [st |-> "exists", rem |-> rem, pid |-> page_id, used |-> NoTitle,
               att |-> <<Attempt("update", page_id, cands[i], "exists")>>, created |-> NoPage]
    ELSE [st |-> "ok", rem |-> update_page(rem, page_id, parent_id, cands[i], storage),
          pid |-> page_id, used |-> cands[i],
          att |-> <<Attempt("update", page_id, cands[i], "ok")>>, created |-> NoPage]

_adopt_by_title_under_root(rem, cfg, t) ==
    IF ~cfg.adopt_existing_by_title_under_root THEN NoPage
    ELSE LET found == find_page_by_title(rem, t)
         IN  IF found = NoPage THEN NoPage
             ELSE IF ~rem[found].under_root THEN NoPage
             ELSE found

RECURSIVE try_create(_, _, _, _, _, _, _)
try_create(rem, cfg, cands, i, parent_id, storage, fail_write) ==
    IF i > Len(cands)
    THEN [st |-> "exists", rem |-> rem, pid |-> NoPage, used |-> NoTitle, att |-> <<>>, created |-> NoPage]
    ELSE IF fail_write /\ ~is_title_exists(create_error(OtherFailureResponse))
    THEN [st |-> "other", rem |-> rem, pid |-> NoPage, used |-> NoTitle,
          att |-> <<Attempt("create", NoPage, cands[i], "other")>>, created |-> NoPage]
    ELSE IF TitleTaken(rem, cands[i], NoPage) /\ is_title_exists(create_error(TitleExistsResponse))
    THEN LET adopted_id == _adopt_by_title_under_root(rem, cfg, cands[i])
             a == Attempt("create", NoPage, cands[i], "exists")
         IN  IF adopted_id # NoPage
             THEN LET u == try_update(rem, adopted_id, cands, 1, parent_id, storage, FALSE)
                  IN  [u EXCEPT !.att = <<a>> \o u.att]
             ELSE LET r == try_create(rem, cfg, cands, i + 1, parent_id, storage, FALSE)
                  IN  [r EXCEPT !.att = <<a>> \o r.att]
    ELSE [st |-> "ok", rem |-> create_page(rem, parent_id, cands[i], storage),
          pid |-> Len(rem) + 1, used |-> cands[i],
          att |-> <<Attempt("create", Len(rem) + 1, cands[i], "ok")>>, created |-> Len(rem) + 1]

\* (mutant) the classification labels are left out of the payload
Payload_no_meta_labels(key, used_title, meta_labels) ==
    [key |-> key, title |-> used_title, src_hash |-> _sha1(key), meta_labels |-> {}]

Payload(key, used_title, meta_labels) ==
    [key |-> key, title |-> used_title, src_hash |-> _sha1(key), meta_labels |-> meta_labels]

\* (mutant) a label deletion that fails is not swallowed
write_source_meta_strict(rem, cfg, pid, key, used_title, meta_labels, env) ==
    IF env.fault = "prop" \/ (cfg.migrate_legacy_doc_labels /\ ~env.del_ok)
    THEN [st |-> "other", rem |-> rem, dels |-> {}]
    ELSE LET r1 == put_property(rem, pid, PROPERTY_KEY, Payload(key, used_title, meta_labels))
         IN  IF env.fault = "source" THEN [st |-> "other", rem |-> r1, dels |-> {}]
             ELSE [st |-> "ok",
                   rem |-> [put_property(r1, pid, SOURCE_KEY,
                                         Payload(key, used_title, meta_labels))
                               EXCEPT ![pid].labels = @ \ VISIBLE_META_LABELS],
                   dels |-> VISIBLE_META_LABELS]

\* write_source_meta; fault "prop"/"source" makes the first/second
\* put_property raise; label deletions are swallowed.  dels: the labels whose
\* deletion from pid was requested.
write_source_meta(rem, cfg, pid, key, used_title, meta_labels, env) ==
    IF env.fault = "prop" THEN [st |-> "other", rem |-> rem, dels |-> {}]
    ELSE LET r1 == put_property(rem, pid, PROPERTY_KEY, Payload(key, used_title, meta_labels))
         IN  IF env.fault = "source" THEN [st |-> "other", rem |-> r1, dels |-> {}]
             ELSE LET r2 == put_property(r1, pid, SOURCE_KEY, Payload(key, used_title, meta_labels))
                      r3 == IF cfg.migrate_legacy_doc_labels /\ env.del_ok
                            THEN [r2 EXCEPT ![pid].labels = @ \ VISIBLE_META_LABELS]
                            ELSE r2
                  IN  [st |-> "ok", rem |-> r3,
                       dels |-> IF cfg.migrate_legacy_doc_labels THEN VISIBLE_META_LABELS ELSE {}]

\* _ensure_labels followed by write_source_meta (the post-write side effects)
PostWrite(rem, cfg, pid, key, used_title, extra_labels, page_labels, env) ==
    IF env.fault = "labels" THEN [st |-> "other", rem |-> rem, dels |-> {}]
    ELSE write_source_meta(add_labels(rem, pid, {cfg.managed_label} \cup page_labels),
                           cfg, pid, key, used_title, extra_labels, env)

\* (mutant) the title search is consulted before the two indexes
lookup_chain_adopt_first(page_id, legacy_id, adopted_id) ==
    IF adopted_id # NoPage THEN "adopt"
    ELSE IF page_id # NoPage THEN "primary"
    ELSE IF legacy_id # NoPage THEN "legacy"
    ELSE "create"

\* The order of the lookups of ensure_page: which branch handles the call.
lookup_chain(page_id, legacy_id, adopted_id) ==
    IF page_id # NoPage THEN "primary"
    ELSE IF legacy_id # NoPage THEN "legacy"
    ELSE IF adopted_id # NoPage THEN "adopt"
    ELSE "create"

\* The whole of ensure_page.  Result: the new remote store and indexes, the
\* returned page id (ret), how it ended (raised: "none", "exists", "other"),
\* the branch taken, the create/update attempts and the page created, if any.
ensure_page(rem, k2p, l2p, cfg, key, title, parent_id, storage, extra_labels, page_labels, collision_prefix, env) ==
    LET cands == title_candidates(key, title, collision_prefix)
        lb == _label_for(key)
        page_id == k2p[key]
        legacy_id == l2p[lb]
        adopted_id == _adopt_by_title_under_root(rem, cfg, <<title>>)
        branch == lookup_chain(page_id, legacy_id, adopted_id)
        fw == env.fault = "write"
        w == CASE branch = "primary" -> try_update(rem, page_id, cands, 1, parent_id, storage, fw)
               [] branch = "legacy" -> try_update(rem, legacy_id, cands, 1, parent_id, storage, fw)
               [] branch = "adopt" -> try_update(rem, adopted_id, cands, 1, parent_id, storage, fw)
               [] OTHER -> try_create(rem, cfg, cands, 1, parent_id, storage, fw)
        out(st, r, kp, pid, dels) ==
            [remote |-> r, key_to_page |-> kp, label_to_page |-> l2p,
             ret |-> pid, raised |-> st, branch |-> branch, att |-> w.att, dels |-> dels,
             created |-> w.created, used |-> w.used, cands |-> cands,
             hits |-> <<page_id, legacy_id, adopted_id>>,
             extra_labels |-> extra_labels, page_labels |-> page_labels]
    IN  IF w.st # "ok" THEN out(w.st, w.rem, k2p, NoPage, {})
        ELSE LET m == PostWrite(w.rem, cfg, w.pid, key, w.used, extra_labels, page_labels, env)
             IN  IF m.st # "ok" THEN out(m.st, m.rem, k2p, NoPage, m.dels)
                 ELSE IF branch = "primary" THEN out("none", m.rem, k2p, w.pid, m.dels)
                 ELSE IF branch = "create"
                      THEN out("none", m.rem, [k2p EXCEPT ![key] = w.pid], w.pid, m.dels)
                 ELSE out("none", delete_label(m.rem, w.pid, lb, env.del_ok),
                          [k2p EXCEPT ![key] = w.pid], w.pid, m.dels \cup {lb})

----------------------------------------------------------------------------
(* DocsPublisher.bootstrap_existing                                        *)

Cfg(adopt) ==
    [adopt_existing_by_title_under_root |-> adopt,
     migrate_legacy_src_labels |-> TRUE,
     migrate_legacy_doc_labels |-> TRUE,
     managed_label |-> DEFAULT_MANAGED_LABEL,
     base_url |-> [host |-> "conf.company.ru", path |-> <<"wiki", "rest", "api">>]]
Cfgs == {Cfg(a) : a \in BOOLEAN}

\* base_url as urlparse splits it: the network location and the path segments
Hosts == {"conf.company.ru", "host.docker.internal:8090"}
ContextPaths == {<<>>, <<"wiki">>, <<"wiki", "rest", "api">>, <<"rest", "api">>}
BaseUrl(host, path) == [host |-> host, path |-> path]
PublishCfgs == {[c EXCEPT !.base_url = BaseUrl(h, c.base_url.path)] : c \in Cfgs, h \in Hosts}

\* pages returned by the CQL query: under the root, carrying the managed label
Discovered(rem, cfg) ==
    {p \in PageIds(rem) : rem[p].under_root /\ cfg.managed_label \in rem[p].labels}

\* (mutant) the key is read from PROPERTY_KEY only
src_key_primary_only(rem, p) ==
    get_property(rem, p, PROPERTY_KEY).key

\* the key read from PROPERTY_KEY, else from the fallback property "source"
src_key(rem, p) ==
    IF get_property(rem, p, PROPERTY_KEY).key # NoKey
    THEN get_property(rem, p, PROPERTY_KEY).key
    ELSE get_property(rem, p, SOURCE_KEY).key

legacy_src_labels(rem, p) == {lb \in rem[p].labels : IsLegacySrcLabel(lb)}

\* An index built by "last page of the iteration wins": the CQL result order
\* is not fixed, so any page that carries the entry may be the last one;
\* the entry is NoPage when no page carries it.  holders maps each entry to
\* the set of pages carrying it.
RECURSIVE IndexOver(_, _)
IndexOver(dom, holders) ==
    IF dom = {} THEN {<<>>}
    ELSE LET x == CHOOSE y \in dom : TRUE
             vals == IF holders[x] = {} THEN {NoPage} ELSE holders[x]
         IN  {(x :> v) @@ f : v \in vals, f \in IndexOver(dom \ {x}, holders)}

\* label deletions of bootstrap (both migrations); failures are swallowed
bootstrap_cleanup(rem, cfg, del_ok) ==
    [p \in PageIds(rem) |->
        IF p \notin Discovered(rem, cfg) \/ ~del_ok THEN rem[p]
        ELSE LET l1 == IF cfg.migrate_legacy_src_labels /\ src_key(rem, p) # NoKey
                       THEN rem[p].labels \ legacy_src_labels(rem, p)
                       ELSE rem[p].labels
                 l2 == IF cfg.migrate_legacy_doc_labels THEN l1 \ VISIBLE_META_LABELS ELSE l1
             IN  [rem[p] EXCEPT !.labels = l2]]

----------------------------------------------------------------------------
(* Tree orchestrator: DocsPublisher.publish_all                            *)

MaxChanges == 3        \* cap on the number of lines of the change list

\* The documents of the repository: docs/d/s/{a,b,c}.md.  A renamed document
\* keeps its text, so b.md and c.md carry the same title.
md_text(p) ==
    CASE p = PathA -> [title |-> "Intro", href |-> Href("", FALSE, <<"b.md">>, "sec"),
                       tags |-> <<"API", "section">>]
      [] p = PathB -> [title |-> "Guide", href |-> Href("", FALSE, <<"..", "s", "c.md">>, ""),
                       tags |-> <<>>]
      [] OTHER -> [title |-> "Guide", href |-> Href("", FALSE, <<"x.md">>, ""),
                   tags |-> <<>>]

\* sanitize_label on the strings of the model: lower case, [a-z0-9-] only
sanitize_label(raw) ==
    CASE raw = "API" -> <<"api">>
      [] raw = "section" -> <<"section">>
      [] raw = "MD" -> <<"md">>
      [] raw = "Docs Team" -> <<"docs-team">>
      [] OTHER -> <<>>

\* values of options.managed_label: not set, two labels, and one that
\* sanitizes to nothing
ManagedLabelOptions == {"", "MD", "Docs Team", "???"}

\* managed_label_from_cfg, from the value of options.managed_label
managed_label_from_cfg(raw) ==
    IF raw = "" THEN DEFAULT_MANAGED_LABEL
    ELSE IF sanitize_label(raw) = <<>> THEN DEFAULT_MANAGED_LABEL
    ELSE sanitize_label(raw)

ManagedCfgs == {[c EXCEPT !.managed_label = managed_label_from_cfg(raw)] : c \in Cfgs, raw \in ManagedLabelOptions}

\* extract_tag_labels(front_matter): the sanitized tags that are not empty
extract_tag_labels(tags) ==
    {sanitize_label(tags[i]) : i \in DOMAIN tags} \ {<<>>}

guess_title(text) == text.title

domain_title_map == [d |-> "Dom"]

\* Change(op, path, new_path): a parsed line of the paths file
Change(op, path, new_path) == [op |-> op, path |-> path, new_path |-> new_path]
NoChange == Change("", <<>>, <<>>)
ChangeLines ==
    {Change("M", PathA, <<>>), Change("M", PathB, <<>>), Change("M", PathC, <<>>),
     Change("D", PathB, <<>>), Change("R", PathB, PathC)}

\* paths_file contents: NoFile (None) or a list of changes without repetition
NoFile == <<Change("none", <<>>, <<>>)>>
RECURSIVE ChangeLists(_)
ChangeLists(n) ==
    IF n = 0 THEN {<<>>}
    ELSE LET shorter == ChangeLists(n - 1)
         IN  shorter \cup {Append(l, c) : l \in {x \in shorter : Len(x) = n - 1},
                                          c \in ChangeLines}
PathsFiles ==
    {NoFile} \cup {l \in ChangeLists(MaxChanges) :
                      \A i, j \in DOMAIN l : i # j => l[i] # l[j]}

\* the working trees: all three documents, or b.md absent (renamed away)
Disks == {Paths, Paths \ {PathB}}

\* names that find_index_file and is_regular_md_file treat as index files, and
\* the names with the suffix .md
IndexNames == {"_index.md", "README.md", "readme.md"}
IsMdName(name) == name \in MdNames \cup IndexNames

\* (mutant) index files are regular documents too
is_regular_md_file_with_index(p, disk) ==
    p \in disk /\ p # <<>> /\ IsMdName(p[Len(p)])

is_regular_md_file(p, disk) ==
    p \in disk /\ p # <<>> /\ p[Len(p)] \notin IndexNames /\ IsMdName(p[Len(p)])

ChangeTarget(ch) == IF ch.op = "R" /\ ch.new_path # <<>> THEN ch.new_path ELSE ch.path

\* (mutant) Deleted entries are handled like Modified ones
RECURSIVE changed_md_files_with_deleted(_, _)
changed_md_files_with_deleted(changes, disk) ==
    IF changes = <<>> THEN <<>>
    ELSE IF is_regular_md_file(_norm_posix(ChangeTarget(Head(changes))), disk)
    THEN <<_norm_posix(ChangeTarget(Head(changes)))>>
            \o changed_md_files_with_deleted(Tail(changes), disk)
    ELSE changed_md_files_with_deleted(Tail(changes), disk)

\* md_files in change mode: targets of the non-D changes that are regular files
RECURSIVE changed_md_files(_, _)
changed_md_files(changes, disk) ==
    IF changes = <<>> THEN <<>>
    ELSE LET ch == Head(changes)
             rest == changed_md_files(Tail(changes), disk)
         IN  IF ch.op = "D" THEN rest
             ELSE IF is_regular_md_file(_norm_posix(ChangeTarget(ch)), disk)
             THEN <<_norm_posix(ChangeTarget(ch))>> \o rest
             ELSE rest

\* changes_by_new_path.get(p): the last non-D change whose target is p
changes_by_new_path(changes, p) ==
    LET idx == {i \in DOMAIN changes :
                   changes[i].op # "D" /\ _norm_posix(ChangeTarget(changes[i])) = p}
    IN  IF idx = {} THEN NoChange
        ELSE changes[CHOOSE i \in idx : \A j \in idx : j <= i]

\* files of the working tree besides docs/d/s/{a,b,c}.md: one directly under
\* the domain, the index file of the section, a file that is no Markdown, a
\* file that does not exist, and one under a domain that is not configured
PathShort == <<"docs", "d", "a.md">>
PathIndex == DocPath("README.md")
PathTxt == DocPath("notes.txt")
PathMissing == DocPath("x.md")
PathUnknownDomain == <<"docs", "zz", "s", "a.md">>

\* sorted(md_files): the paths in the order of their parts, repetitions kept
SortedPaths == <<PathShort, PathIndex, PathA, PathB, PathC, PathTxt, PathMissing, PathUnknownDomain>>
RECURSIVE sorted_from(_, _)
sorted_from(files, k) ==
    IF k > Len(SortedPaths) THEN <<>>
    ELSE SelectSeq(files, LAMBDA f : f = SortedPaths[k]) \o sorted_from(files, k + 1)
sorted(files) == sorted_from(files, 1)

md_files(paths_file, disk) ==
    IF paths_file # NoFile THEN changed_md_files(paths_file, disk)
    ELSE SelectSeq(SortedPaths, LAMBDA f : is_regular_md_file(f, disk))

Entry(p, section_pages, changes) ==
    LET ch == changes_by_new_path(changes, p)
        renamed == ch.op = "R" /\ ch.new_path # <<>>
    IN  [current_path |-> p,
         md_text |-> md_text(p),
         title |-> guess_title(md_text(p)),
         key |-> file_key(p),
         parent_id |-> section_pages[<<p[2], p[3]>>],
         collision_prefix |-> domain_title_map[p[2]],
         rename_from_key |-> IF renamed THEN file_key(_norm_posix(ch.path)) ELSE NoKey,
         rename_from_path |-> IF renamed THEN _norm_posix(ch.path) ELSE <<>>]

\* the entries of the run: sorted files under a known (domain, section)
entries_of(paths_file, disk, section_pages) ==
    LET files == SelectSeq(sorted(md_files(paths_file, disk)),
                           LAMBDA f : /\ f[1] = "docs"
                                      /\ Len(f) - 1 >= 3
                                      /\ <<f[2], f[3]>> \in DOMAIN section_pages)
        changes == IF paths_file # NoFile THEN paths_file ELSE <<>>
    IN  [i \in DOMAIN files |-> Entry(files[i], section_pages, changes)]

----------------------------------------------------------------------------
(* The converter (converter/md_to_confluence_storage.py): front matter      *)

\* A text is its lines; nl tells whether the last line ends with a newline.
MaxLines == 4
Text(lines, nl) == [lines |-> lines, nl |-> nl]

\* the lines of the front-matter model: the delimiter, a blank line, two
\* mapping entries, a line YAML cannot parse, a sequence item, and a Markdown
\* heading (a comment for YAML)
FmLines == {"---", "", "title: Hello", "owner: bob", "title: a: b", "- a", "# Body"}
FmTexts == {Text(l, n) : l \in UNION {[1..k -> FmLines] : k \in 0..MaxLines}, n \in BOOLEAN}
WellFormedText(t) == IF t.lines = <<>> THEN ~t.nl ELSE (t.lines[Len(t.lines)] = "" => t.nl)

Terminated(t, k) == k < Len(t.lines) \/ t.nl
RECURSIVE BlankRun(_, _)
BlankRun(lines, from) ==
    IF from <= Len(lines) /\ lines[from] = "" THEN 1 + BlankRun(lines, from + 1) ELSE 0
MinOf(S) == CHOOSE x \in S : \A y \in S : x <= y
MaxOf(S) == CHOOSE x \in S : \A y \in S : x >= y

\* _FRONT_MATTER_RE.match(md) for ^---\s*\n(.*?)\n---\s*\n with DOTALL: the
\* opening line takes as many following blank lines as still leave a match
\* (greedy \s*), the block ends at the first later delimiter line that ends
\* with a newline (lazy .*?), which takes the blank lines after it.
Closers(t, s) == {k \in (3 + s)..Len(t.lines) : t.lines[k] = "---" /\ Terminated(t, k)}
NoMatch == [found |-> FALSE, first |-> 0, last |-> 0, end |-> 0]
_FRONT_MATTER_RE(t) ==
    IF t.lines = <<>> \/ t.lines[1] # "---" \/ ~Terminated(t, 1) THEN NoMatch
    ELSE LET S == {s \in 0..BlankRun(t.lines, 2) : Closers(t, s) # {}}
         IN  IF S = {} THEN NoMatch
             ELSE LET s == MaxOf(S)
                      k == MinOf(Closers(t, s))
                  IN  [found |-> TRUE, first |-> 2 + s, last |-> k - 1,
                       end |-> k + BlankRun(t.lines, k + 1)]

\* yaml.safe_load(raw) on the lines of the model: what it returns, or "error"
\* for yaml.YAMLError.  A leading --- starts the document, blank lines and
\* comments carry nothing.
YamlEntries == {"title: Hello", "owner: bob"}
YamlKey(line) == IF line = "title: Hello" THEN "title" ELSE "owner"
Loaded(kind, keys) == [kind |-> kind, keys |-> keys]
safe_load(raw) ==
    LET content == SelectSeq(raw, LAMBDA l : l \notin {"", "# Body", "---"})
        C == {content[i] : i \in DOMAIN content}
    IN  IF C = {} THEN Loaded("None", {})
        ELSE IF C \subseteq YamlEntries THEN Loaded("dict", {YamlKey(l) : l \in C})
        ELSE IF C = {"- a"} THEN Loaded("list", {})
        ELSE Loaded("error", {})

\* strip_front_matter(md): (data, body), or the exception of safe_load;
\* `safe_load(raw) or {}` turns None into the empty mapping
Stripped(raised, fm, body) == [raised |-> raised, fm |-> fm, body |-> body]
strip_front_matter(md) ==
    LET m == _FRONT_MATTER_RE(md)
    IN  IF ~m.found THEN Stripped(FALSE, Loaded("dict", {}), md)
        ELSE LET data == safe_load(SubSeq(md.lines, m.first, m.last))
                 body == Text(SubSeq(md.lines, m.end + 1, Len(md.lines)),
                              IF m.end = Len(md.lines) THEN FALSE ELSE md.nl)
             IN  IF data.kind = "error" THEN Stripped(TRUE, data, md)
                 ELSE IF data.kind = "None" THEN Stripped(FALSE, Loaded("dict", {}), body)
                 ELSE Stripped(FALSE, data, body)

----------------------------------------------------------------------------
(* The converter: _normalize_markdown                                       *)

\* A line of the body: the number of #s in front of it (0: no heading), the
\* numberings its text starts with, in order, and the rest of it.  A
\* numbering is its numbers and whether a dot ends it: "1.1 " is
\* Num(<<1, 1>>, FALSE), "1.1. " is Num(<<1, 1>>, TRUE).  A line as written back
\* is the same record, so that "# 1. First" is Line(1, <<Num(<<1>>, TRUE)>>,
\* "First") both when read and when produced.
Num(n, dot) == [n |-> n, dot |-> dot]
Line(level, nums, text) == [level |-> level, nums |-> nums, text |-> text]
BacktickFence == Line(0, <<>>, "<three backticks>")
TildeFence == Line(0, <<>>, "~~~")
NormLines ==
    {BacktickFence, TildeFence, Line(1, <<>>, "Title"),
     Line(2, <<Num(<<1>>, TRUE)>>, "First"), Line(2, <<Num(<<1, 1>>, FALSE)>>, "Second"),
     Line(3, <<Num(<<1, 1>>, FALSE)>>, "Second"), Line(0, <<>>, "text"),
     Line(4, <<>>, "Third"), Line(5, <<>>, "Fourth")}

\* heading_numbering_max_level as configured, and max_lvl as the loop uses it:
\* int(self.heading_numbering_max_level or 3), kept within 1..6
MaxLevels == {2, 3}
max_lvl(heading_numbering_max_level) ==
    LET v == IF heading_numbering_max_level = 0 THEN 3 ELSE heading_numbering_max_level
    IN  IF v < 1 THEN 1 ELSE IF v > 6 THEN 6 ELSE v
NormBodies == UNION {[1..k -> NormLines] : k \in 0..MaxLines}

\* _FENCE_RE.match(core) and _HEADING_RE.match(core)
_FENCE_RE(core) == core \in {BacktickFence, TildeFence}
_HEADING_RE(core) == core.level >= 1

\* the state of the loop of _normalize_markdown;  steps records, for every
\* input line, what the loop did with it
NormState(in_fence, removed_first_h1, n, steps) ==
    [in_fence |-> in_fence, removed_first_h1 |-> removed_first_h1, n |-> n, steps |-> steps]
NormStep(heading, out, n) == [heading |-> heading, out |-> out, n |-> n]

\* (mutant) a level-1 heading starts the numbering again
count_restart(n, level) ==
    IF level = 1 THEN <<1, 0, 0>>
    ELSE IF level = 2 THEN <<IF n[1] = 0 THEN 1 ELSE n[1], n[2] + 1, 0>>
    ELSE <<IF n[1] = 0 THEN 1 ELSE n[1], IF n[2] = 0 THEN 1 ELSE n[2], n[3] + 1>>

\* (mutant) a level-1 heading leaves the deeper counters as they are
count_no_reset(n, level) ==
    IF level = 1 THEN <<n[1] + 1, n[2], n[3]>>
    ELSE IF level = 2 THEN <<IF n[1] = 0 THEN 1 ELSE n[1], n[2] + 1, 0>>
    ELSE <<IF n[1] = 0 THEN 1 ELSE n[1], IF n[2] = 0 THEN 1 ELSE n[2], n[3] + 1>>

\* the counters n1, n2, n3 after a heading of the given (promoted) level
count(n, level) ==
    IF level = 1 THEN <<n[1] + 1, 0, 0>>
    ELSE IF level = 2 THEN <<IF n[1] = 0 THEN 1 ELSE n[1], n[2] + 1, 0>>
    ELSE <<IF n[1] = 0 THEN 1 ELSE n[1], IF n[2] = 0 THEN 1 ELSE n[2], n[3] + 1>>

\* (mutant) the manual numbering stays in the heading text
_strip_heading_number_prefix_keep(nums) ==
    nums

\* _strip_heading_number_prefix(text) with strip_heading_numbers set: the
\* first numbering the text starts with goes (_HEADING_NUM_PREFIX_RE)
_strip_heading_number_prefix(nums) ==
    IF nums = <<>> THEN nums ELSE Tail(nums)

\* prefix + text, unless text.startswith(prefix)
with_prefix(prefix, nums) ==
    IF nums # <<>> /\ Head(nums) = prefix THEN nums ELSE <<prefix>> \o nums

\* the body of the loop for one line, with strip_title_h1, promote_headings
\* and strip_heading_numbers set as DocsPublisher sets them
normalize_line(st, core, numbering, max_level) ==
    IF _FENCE_RE(core)
    THEN NormState(~st.in_fence, st.removed_first_h1, st.n,
                   Append(st.steps, NormStep(FALSE, <<core>>, st.n)))
    ELSE IF ~st.in_fence /\ _HEADING_RE(core)
    THEN IF core.level = 1 /\ ~st.removed_first_h1
         THEN NormState(st.in_fence, TRUE, st.n, Append(st.steps, NormStep(TRUE, <<>>, st.n)))
         ELSE LET level == IF core.level > 1 THEN core.level - 1 ELSE core.level
                  numbered == numbering /\ level <= 3 /\ level <= max_lvl(max_level)
                  n == IF numbered THEN count(st.n, level) ELSE st.n
                  text == _strip_heading_number_prefix(core.nums)
                  nums == IF numbered THEN with_prefix(Num(SubSeq(n, 1, level), TRUE), text)
                          ELSE text
              IN  NormState(st.in_fence, st.removed_first_h1, n,
                            Append(st.steps, NormStep(TRUE, <<Line(level, nums, core.text)>>, n)))
    ELSE NormState(st.in_fence, st.removed_first_h1, st.n,
                   Append(st.steps, NormStep(FALSE, <<core>>, st.n)))

RECURSIVE normalize_loop(_, _, _, _)
normalize_loop(st, lines, numbering, max_level) ==
    IF lines = <<>> THEN st
    ELSE normalize_loop(normalize_line(st, Head(lines), numbering, max_level), Tail(lines),
                        numbering, max_level)

RECURSIVE Concat(_)
Concat(seqs) == IF seqs = <<>> THEN <<>> ELSE Head(seqs) \o Concat(Tail(seqs))

\* _normalize_markdown(body): the lines written to out, and the steps taken
_normalize_markdown(body, numbering, max_level) ==
    LET st == normalize_loop(NormState(FALSE, FALSE, <<0, 0, 0>>, <<>>), body, numbering,
                             max_level)
    IN  [out |-> Concat([i \in DOMAIN st.steps |-> st.steps[i].out]), steps |-> st.steps]

\* guess_title(md_text, fallback) on a text without front matter:
\* re.search(r"^#\s+(.+)$", body, re.M) takes the first line that starts with
\* one # and whitespace, wherever it stands, and returns all that follows
\* the #; a title is the numberings and the words of that line
Title(nums, text) == [nums |-> nums, text |-> text]
Fallback == Title(<<>>, "<stem>")
guess_title_md(body) ==
    LET H == {i \in DOMAIN body : body[i].level = 1}
    IN  IF H = {} THEN Fallback
        ELSE LET i == CHOOSE k \in H : \A j \in H : k <= j
             IN  Title(body[i].nums, body[i].text)

\* the lines of the documents whose title is guessed: a fence, a line that
\* starts with "# " twice ("# Title", "# make install"), a deeper heading, text
TitleLines ==
    {BacktickFence, Line(1, <<>>, "Title"), Line(1, <<>>, "make install"),
     Line(2, <<Num(<<1>>, TRUE)>>, "First"), Line(0, <<>>, "text")}
TitleBodies == UNION {[1..k -> TitleLines] : k \in 0..MaxLines}

----------------------------------------------------------------------------
(* The converter: convert and what it puts at the top of the page           *)

\* body.splitlines seen through _FENCE_RE and _HEADING_RE: "# Body" is the one
\* heading of the lines of the front-matter model
ParseLine(l) == IF l = "# Body" THEN Line(1, <<>>, "Body") ELSE Line(0, <<>>, l)

\* The nodes of the soup, by name: "ws" is a whitespace string, "h" a heading,
\* "p" a paragraph, "ul" a list, "hr" a rule; "html" is the macro with the
\* numbering CSS, "div" the wrapper it comes with, "details" the metadata
\* panel, "spacer" the <p><br/></p> after it, "expand" the container of the
\* table of contents.
BlockOf(line) ==
    IF line.level >= 1 THEN "h"
    ELSE IF line.text = "---" THEN "hr"
    ELSE IF line.text = "- a" THEN "ul"
    ELSE "p"

\* BeautifulSoup(self.md.render(body)): one block and the newline after it for
\* every run of lines of one block; blank lines end a block and give nothing
RECURSIVE render(_, _)
render(lines, open) ==
    IF lines = <<>> THEN <<>>
    ELSE IF Head(lines).text = "" /\ Head(lines).level = 0 THEN render(Tail(lines), "")
    ELSE IF BlockOf(Head(lines)) = open /\ open \in {"p", "ul"} THEN render(Tail(lines), open)
    ELSE <<BlockOf(Head(lines)), "ws">> \o render(Tail(lines), BlockOf(Head(lines)))

\* _inject_heading_numbering_css: wrap the content, put the macro at the top
_inject_heading_numbering_css(soup) == <<"html", "div">>

\* _inject_page_properties(soup, front_matter): the panel, at index 0, when
\* front_matter is a mapping with an owner, a creation date or a task
HasPanelFields(fm) == fm.kind = "dict" /\ "owner" \in fm.keys
_inject_page_properties(soup, fm) == IF HasPanelFields(fm) THEN <<"details">> \o soup ELSE soup

\* list.insert(i, x) with a 0-based index
Insert(seq, at, x) == SubSeq(seq, 1, at) \o <<x>> \o SubSeq(seq, at + 1, Len(seq))

\* the first node of the soup that is not a whitespace string (0: none)
FirstNode(soup) ==
    IF \A i \in DOMAIN soup : soup[i] = "ws" THEN 0
    ELSE MinOf({i \in DOMAIN soup : soup[i] # "ws"})

\* (mutant) the table of contents always goes to index 0
_inject_toc_first(soup) ==
    Insert(soup, 0, "expand")

\* _inject_toc(soup): after the panel and a spacer when the first node is the
\* panel, else in front of the first node
_inject_toc(soup) ==
    LET i == FirstNode(soup)
        details_found == i # 0 /\ soup[i] = "details"
        insert_at == IF i = 0 THEN 0 ELSE IF details_found THEN i ELSE i - 1
    IN  IF details_found
        THEN Insert(Insert(soup, insert_at, "spacer"), insert_at + 1, "expand")
        ELSE Insert(soup, insert_at, "expand")

\* soup.decode(...).strip(): whitespace at both ends goes
RECURSIVE lstrip(_)
lstrip(soup) == IF soup # <<>> /\ Head(soup) = "ws" THEN lstrip(Tail(soup)) ELSE soup
RECURSIVE rstrip(_)
rstrip(soup) ==
    IF soup # <<>> /\ soup[Len(soup)] = "ws" THEN rstrip(SubSeq(soup, 1, Len(soup) - 1)) ELSE soup

\* convert(md_text) of a converter built with the options opts
ConvOpts(inject_toc, heading_numbering_css) == [inject_toc |-> inject_toc, heading_numbering_css |-> heading_numbering_css]
ConversionResult(raised, storage, front_matter) == [raised |-> raised, storage |-> storage, front_matter |-> front_matter]
convert_md(md, opts) ==
    LET s == strip_front_matter(md)
    IN  IF s.raised THEN ConversionResult(TRUE, <<>>, s.fm)
        ELSE LET body == _normalize_markdown([i \in DOMAIN s.body.lines |-> ParseLine(s.body.lines[i])], TRUE, 3).out
                 soup0 == render(body, "")
                 soup1 == IF opts.heading_numbering_css THEN _inject_heading_numbering_css(soup0) ELSE soup0
                 soup2 == _inject_page_properties(soup1, s.fm)
                 soup3 == IF opts.inject_toc THEN _inject_toc(soup2) ELSE soup2
             IN  ConversionResult(FALSE, rstrip(lstrip(soup3)), s.fm)

----------------------------------------------------------------------------
(* State                                                                   *)

VARIABLES
    remote,          \* the remote store: sequence of pages, id = index
    cfg,             \* configuration of the current run
    key_to_page,     \* DocsPublisher.key_to_page   (NoPage = absent)
    label_to_page,   \* DocsPublisher.label_to_page (NoPage = absent)
    path_to_page,    \* DocsPublisher.path_to_page  (NoPage = absent)
    pc,              \* "idle" | "run" | "aborted": position of the run
    created,         \* history: key -> ids of the pages create_page made for it
    returned,        \* history: key -> page ids ensure_page returned for it
    faulted,         \* history: a remote call failed with a non-collision error
    last,            \* history: the last ensure_page call
    calls,           \* history: number of ensure_page calls so far
    run,             \* publish_all: its arguments, its entries and its position
    written,         \* history: path -> page id and body of its last publish_entry
    conv             \* the converter: the call made, its input and its result

vars == <<remote, cfg, key_to_page, label_to_page, path_to_page, pc,
          created, returned, faulted, last, calls, run, written, conv>>

NoConv == [op |-> "none"]

Body(key) == [src |-> key, link |-> NoLink]

NoRun == [pass_no |-> 0, paths_file |-> NoFile, md_path |-> <<>>, disk |-> {}, entries |-> <<>>, i |-> 0, boot_k2p |-> <<>>, boot_l2p |-> <<>>, boot_p2p |-> <<>>, docs_dir |-> TRUE, remote_calls |-> FALSE, exit |-> ""]
NotWritten == [pid |-> NoPage, storage |-> Body(NoKey)]

\* pages that exist before the publisher ever ran
ManualUnderRoot == Page(<<"Intro">>, TRUE, Body(NoKey), {}, NoProp, NoProp)
ManualOutside == Page(<<"Intro">>, FALSE, Body(NoKey), {}, NoProp, NoProp)
ManualOutside2 == Page(<<"Dom", " · ", "Intro">>, FALSE, Body(NoKey), {}, NoProp, NoProp)
LegacyPage(key) ==
    Page(<<"Legacy">>, TRUE, Body(key),
         {DEFAULT_MANAGED_LABEL, _label_for(key), <<"md">>}, NoProp, NoProp)

\* a page an earlier run published for key under the title t (by create_page)
PublishedPage(key, t) ==
    Page(t, TRUE, Body(key), {DEFAULT_MANAGED_LABEL},
         Payload(key, t, {<<"md">>}), Payload(key, t, {<<"md">>}))

\* remote stores the publisher can find when it starts, with the ids of the
\* pages that earlier runs created for a key
InitWorlds ==
    { [remote |-> <<>>, made |-> {}],
      [remote |-> <<ManualUnderRoot>>, made |-> {}],
      [remote |-> <<ManualOutside>>, made |-> {}],
      [remote |-> <<ManualOutside, ManualOutside2>>, made |-> {}],
      [remote |-> <<LegacyPage(KeyA)>>, made |-> {}],
      [remote |-> <<PublishedPage(KeyA, <<"Intro">>)>>, made |-> {<<KeyA, 1>>}],
      [remote |-> <<ManualOutside, ManualOutside2,
                    PublishedPage(KeyA, <<"Intro", " [", _sha1(KeyA)[1], "]">>)>>,
       made |-> {<<KeyA, 3>>}] }

NoCall == [key |-> NoKey, title |-> "", prefix |-> "", branch |-> "none",
           hits |-> <<NoPage, NoPage, NoPage>>, cands |-> <<>>, att |-> <<>>,
           ret |-> NoPage, raised |-> "none", used |-> NoTitle, created |-> NoPage,
           fault |-> "none", extra_labels |-> {}, page_labels |-> {}, dels |-> {}]

CallRecord(key, title, prefix, fault, r) ==
    [key |-> key, title |-> title, prefix |-> prefix, branch |-> r.branch,
     hits |-> r.hits, cands |-> r.cands, att |-> r.att,
     ret |-> r.ret, raised |-> r.raised, used |-> r.used, created |-> r.created,
     fault |-> fault, extra_labels |-> r.extra_labels, page_labels |-> r.page_labels,
     dels |-> r.dels]

Init ==
    /\ \E w \in InitWorlds :
          /\ remote = w.remote
          /\ created = [k \in AllKeys |-> {m[2] : m \in {x \in w.made : x[1] = k}}]
          /\ returned = [k \in AllKeys |-> {m[2] : m \in {x \in w.made : x[1] = k}}]
    /\ cfg \in Cfgs
    /\ key_to_page = [k \in AllKeys |-> NoPage]
    /\ label_to_page = [lb \in LegacyLabels |-> NoPage]
    /\ path_to_page = [p \in Paths |-> NoPage]
    /\ pc = "idle"
    /\ faulted = FALSE
    /\ last = NoCall
    /\ calls = 0
    /\ run = NoRun
    /\ written = [p \in Paths |-> NotWritten]
    /\ conv = NoConv

\* A new run: a fresh DocsPublisher (empty indexes) runs bootstrap_existing.
Bootstrap(del_ok) ==
    /\ pc \in {"idle", "run", "aborted"}
    /\ key_to_page' \in IndexOver(AllKeys,
            [k \in AllKeys |-> {p \in Discovered(remote, cfg) : src_key(remote, p) = k}])
    /\ label_to_page' \in IndexOver(LegacyLabels,
            [lb \in LegacyLabels |-> {p \in Discovered(remote, cfg) : lb \in remote[p].labels}])
    /\ path_to_page' = [p \in Paths |-> key_to_page'[file_key(p)]]
    /\ remote' = bootstrap_cleanup(remote, cfg, del_ok)
    /\ pc' = "run"
    /\ last' = NoCall
    /\ UNCHANGED <<conv, cfg, created, returned, faulted, calls, run, written>>

EngineKeys == {KeyA, KeyB}

\* What the remote does to the calls of one ensure_page: fault names the remote
\* call that raises a failure other than "title already exists" ("write": the
\* first create/update, "labels": add_labels, "prop"/"source": the first/second
\* put_property); del_ok tells whether label deletions are performed.
Env(fault, del_ok) == [fault |-> fault, del_ok |-> del_ok]
NoFaultEnvs == {Env("none", TRUE), Env("none", FALSE)}
FaultEnvs == {Env(f, TRUE) : f \in {"write", "labels", "prop", "source"}}

\* One ensure_page call of the running publisher.
EnsurePage(key, title, prefix, env) ==
    /\ pc = "run"
    /\ calls < MaxCalls
    /\ calls' = calls + 1
    /\ \E r \in {ensure_page(remote, key_to_page, label_to_page, cfg, key, title, ROOT,
                            Body(key), {<<"md">>}, {}, prefix, env)} :
           /\ Len(r.remote) <= MaxPages
           /\ env.fault \in {"labels", "prop", "source"} => r.raised = "other"
           /\ remote' = r.remote
           /\ key_to_page' = r.key_to_page
           /\ label_to_page' = r.label_to_page
           /\ pc' = IF r.raised = "none" THEN "run" ELSE "aborted"
           /\ created' = IF r.created # NoPage
                         THEN [created EXCEPT ![key] = @ \cup {r.created}] ELSE created
           /\ returned' = IF r.raised = "none"
                          THEN [returned EXCEPT ![key] = @ \cup {r.ret}] ELSE returned
           /\ faulted' = (faulted \/ env.fault # "none")
           /\ last' = CallRecord(key, title, prefix, env.fault, r)
    /\ UNCHANGED <<conv, cfg, path_to_page, run, written>>

\* The engine with a well-behaved remote.
Next ==
    \/ \E d \in BOOLEAN : Bootstrap(d)
    \/ \E k \in EngineKeys, t \in BaseTitles, pf \in Prefixes, e \in NoFaultEnvs :
          EnsurePage(k, t, pf, e)

Spec == Init /\ [][Next]_vars

\* The engine with a remote that may fail one call of a behaviour: the run
\* aborts there and the publish is re-invoked from bootstrap_existing.
EnsurePageFaulty(key, title, prefix, env) ==
    /\ ~faulted
    /\ EnsurePage(key, title, prefix, env)

NextRetry ==
    \/ Next
    \/ \E k \in EngineKeys, t \in BaseTitles, pf \in Prefixes, e \in FaultEnvs :
          EnsurePageFaulty(k, t, pf, e)

SpecRetry == Init /\ [][NextRetry]_vars

\* The engine under every configuration of the managed marker label.
InitManaged ==
    /\ \E w \in InitWorlds :
          /\ remote = w.remote
          /\ created = [k \in AllKeys |-> {m[2] : m \in {x \in w.made : x[1] = k}}]
          /\ returned = [k \in AllKeys |-> {m[2] : m \in {x \in w.made : x[1] = k}}]
    /\ cfg \in ManagedCfgs
    /\ key_to_page = [k \in AllKeys |-> NoPage]
    /\ label_to_page = [lb \in LegacyLabels |-> NoPage]
    /\ path_to_page = [p \in Paths |-> NoPage]
    /\ pc = "idle"
    /\ faulted = FALSE
    /\ last = NoCall
    /\ calls = 0
    /\ run = NoRun
    /\ written = [p \in Paths |-> NotWritten]
    /\ conv = NoConv

SpecManaged == InitManaged /\ [][Next]_vars

\* bootstrap_existing alone, over trees that hold pages of every kind the
\* discovery tells apart, one page per key, and under each setting of the two
\* migration options
SecondaryOnlyPage(key) ==
    Page(<<"Guide">>, TRUE, Body(key), {DEFAULT_MANAGED_LABEL}, NoProp, Payload(key, <<"Guide">>, {}))
HalfMigratedPage(key) ==
    Page(<<"Legacy">>, TRUE, Body(key), {DEFAULT_MANAGED_LABEL, _label_for(key), <<"dir">>},
         Payload(key, <<"Legacy">>, {}), Payload(key, <<"Legacy">>, {}))
OutsideManagedPage(key) ==
    Page(<<"Intro">>, FALSE, Body(key), {DEFAULT_MANAGED_LABEL, _label_for(key)},
         Payload(key, <<"Intro">>, {}), Payload(key, <<"Intro">>, {}))
UnmanagedPage(key) ==
    Page(<<"Intro">>, TRUE, Body(key), {_label_for(key)},
         Payload(key, <<"Intro">>, {}), Payload(key, <<"Intro">>, {}))
PageKinds ==
    {PublishedPage(KeyA, <<"Intro">>), SecondaryOnlyPage(KeyB), LegacyPage(dir_key(DomainDir)),
     HalfMigratedPage(KeyC), OutsideManagedPage(dir_key(SectionDir)), ManualUnderRoot,
     UnmanagedPage(dir_key(SectionDir))}

RECURSIVE Trees(_)
Trees(n) ==
    IF n = 0 THEN {<<>>}
    ELSE LET shorter == Trees(n - 1)
         IN  shorter \cup {Append(t, k) : t \in {x \in shorter : Len(x) = n - 1},
                                          k \in PageKinds}
BootTrees == {t \in Trees(MaxPages - 1) : \A i, j \in DOMAIN t : i # j => t[i] # t[j]}
BootCfgs == {[Cfg(FALSE) EXCEPT !.migrate_legacy_src_labels = a, !.migrate_legacy_doc_labels = b] : a \in BOOLEAN, b \in BOOLEAN}

InitBootstrap ==
    /\ remote \in BootTrees
    /\ cfg \in BootCfgs
    /\ created = [k \in AllKeys |-> {}]
    /\ returned = [k \in AllKeys |-> {}]
    /\ key_to_page = [k \in AllKeys |-> NoPage]
    /\ label_to_page = [lb \in LegacyLabels |-> NoPage]
    /\ path_to_page = [p \in Paths |-> NoPage]
    /\ pc = "idle"
    /\ faulted = FALSE
    /\ last = NoCall
    /\ calls = 0
    /\ run = NoRun
    /\ written = [p \in Paths |-> NotWritten]
    /\ conv = NoConv

NextBootstrap == \E d \in BOOLEAN : Bootstrap(d)

SpecBootstrap == InitBootstrap /\ [][NextBootstrap]_vars

----------------------------------------------------------------------------
(* cleanup_managed.main as a process                                       *)

\* Confluence.delete_page: the page is gone and its id stays unused; Gone is
\* what is left at the index of a deleted page
Gone == Page(NoTitle, FALSE, Body(NoKey), {}, NoProp, NoProp)
delete_page(rem, page_id) == [rem EXCEPT ![page_id] = Gone]

RECURSIVE delete_pages(_, _)
delete_pages(rem, ids) ==
    IF ids = <<>> THEN rem ELSE delete_pages(delete_page(rem, Head(ids)), Tail(ids))

\* (mutant) --list-only does not hold back --delete
should_delete_despite_list_only(delete, list_only) ==
    delete

\* if delete and not list_only
should_delete(delete, list_only) ==
    delete /\ ~list_only

\* the pages of the CQL query of main, in the order of their ids
RECURSIVE SeqOfIds(_)
SeqOfIds(S) ==
    IF S = {} THEN <<>>
    ELSE LET m == CHOOSE x \in S : \A y \in S : x <= y IN <<m>> \o SeqOfIds(S \ {m})
cleanup_pages(rem, c) == SeqOfIds(Discovered(rem, c))

CleanupCfgs == {[Cfg(FALSE) EXCEPT !.managed_label = managed_label_from_cfg(raw)] : raw \in {"", "MD"}}

InitCleanup ==
    /\ remote \in BootTrees
    /\ cfg \in CleanupCfgs
    /\ created = [k \in AllKeys |-> {}]
    /\ returned = [k \in AllKeys |-> {}]
    /\ key_to_page = [k \in AllKeys |-> NoPage]
    /\ label_to_page = [lb \in LegacyLabels |-> NoPage]
    /\ path_to_page = [p \in Paths |-> NoPage]
    /\ pc = "idle"
    /\ faulted = FALSE
    /\ last = NoCall
    /\ calls = 0
    /\ run = NoRun
    /\ written = [p \in Paths |-> NotWritten]
    /\ conv = NoConv

\* main(cfg_path, delete, list_only); started is FALSE when CONF_TOKEN is not
\* set or load_cfg exits, and n is the number of delete_page calls that return
\* before one raises (all of them when none does)
Cleanup(started, delete, list_only, n) ==
    /\ pc = "idle"
    /\ LET pages == IF started THEN cleanup_pages(remote, cfg) ELSE <<>>
           deleted == IF started /\ should_delete(delete, list_only)
                      THEN SubSeq(pages, 1, n) ELSE <<>>
       IN  /\ n <= Len(pages)
           /\ (~(started /\ should_delete(delete, list_only)) => n = 0)
           /\ remote' = delete_pages(remote, deleted)
           /\ conv' = [op |-> "cleanup", started |-> started, delete |-> delete,
                       list_only |-> list_only, pages |-> pages, deleted |-> deleted]
    /\ pc' = "done"
    /\ UNCHANGED <<cfg, key_to_page, label_to_page, path_to_page, created, returned,
                   faulted, last, calls, run, written>>

NextCleanup ==
    \E started \in BOOLEAN, delete \in BOOLEAN, list_only \in BOOLEAN, n \in 0..MaxPages :
       Cleanup(started, delete, list_only, n)

SpecCleanup == InitCleanup /\ [][NextCleanup]_vars

----------------------------------------------------------------------------
(* publish_all as a process: bootstrap, skeleton, Phase A, Phase B         *)

DomainPage ==
    Page(<<"Dom">>, TRUE, Body(dir_key(DomainDir)), {DEFAULT_MANAGED_LABEL},
         Payload(dir_key(DomainDir), <<"Dom">>, {<<"dir">>}),
         Payload(dir_key(DomainDir), <<"Dom">>, {<<"dir">>}))
SectionPage ==
    Page(<<"Dom · Sec">>, TRUE, Body(dir_key(SectionDir)), {DEFAULT_MANAGED_LABEL},
         Payload(dir_key(SectionDir), <<"Dom · Sec">>, {<<"dir">>, <<"section">>}),
         Payload(dir_key(SectionDir), <<"Dom · Sec">>, {<<"dir">>, <<"section">>}))
\* a page of the label era: managed, found only through its src- label
LegacyDoc(key, t) ==
    Page(t, TRUE, Body(key), {DEFAULT_MANAGED_LABEL, _label_for(key), <<"md">>}, NoProp, NoProp)

\* remote trees earlier runs left behind (made: the pages they created)
PublishWorlds ==
    { [remote |-> <<>>, made |-> {}],
      [remote |-> <<DomainPage, SectionPage,
                    PublishedPage(KeyA, <<"Intro">>), PublishedPage(KeyB, <<"Guide">>)>>,
       made |-> {<<dir_key(DomainDir), 1>>, <<dir_key(SectionDir), 2>>,
                 <<KeyA, 3>>, <<KeyB, 4>>}],
      [remote |-> <<DomainPage, SectionPage,
                    PublishedPage(KeyA, <<"Intro">>), LegacyDoc(KeyB, <<"Guide">>)>>,
       made |-> {<<dir_key(DomainDir), 1>>, <<dir_key(SectionDir), 2>>,
                 <<KeyA, 3>>, <<KeyB, 4>>}],
      [remote |-> <<DomainPage, SectionPage,
                    PublishedPage(KeyA, <<"Intro">>), PublishedPage(KeyB, <<"Guide">>),
                    PublishedPage(KeyC, <<"Dom", " · ", "Guide">>)>>,
       made |-> {<<dir_key(DomainDir), 1>>, <<dir_key(SectionDir), 2>>,
                 <<KeyA, 3>>, <<KeyB, 4>>, <<KeyC, 5>>}] }

InitPublish ==
    /\ \E w \in PublishWorlds :
          /\ remote = w.remote
          /\ created = [k \in AllKeys |-> {m[2] : m \in {x \in w.made : x[1] = k}}]
          /\ returned = [k \in AllKeys |-> {m[2] : m \in {x \in w.made : x[1] = k}}]
    /\ cfg \in PublishCfgs
    /\ key_to_page = [k \in AllKeys |-> NoPage]
    /\ label_to_page = [lb \in LegacyLabels |-> NoPage]
    /\ path_to_page = [p \in Paths |-> NoPage]
    /\ pc = "idle"
    /\ faulted = FALSE
    /\ last = NoCall
    /\ calls = 0
    /\ run = NoRun
    /\ written = [p \in Paths |-> NotWritten]
    /\ conv = NoConv

\* history of one ensure_page call r for key
NoteCreated(cr, key, r) ==
    IF r.created # NoPage THEN [cr EXCEPT ![key] = @ \cup {r.created}] ELSE cr
NoteReturned(rt, key, r) ==
    IF r.raised = "none" THEN [rt EXCEPT ![key] = @ \cup {r.ret}] ELSE rt

\* what a run reads besides the documents: the token, the settings of
\* publish.yml that have no default, and whether cfg.docs_dir is a directory
RequiredSettings == {"CONF_TOKEN", "docs_root_id"}

\* publish_all(pass_no, cfg_path, paths_file) without the token or without
\* docs_root_id: SystemExit before the publisher and its client are built
LoadCfgFails(missing) ==
    /\ pc = "idle"
    /\ pc' = "exit"
    /\ run' = [NoRun EXCEPT !.exit = missing]
    /\ UNCHANGED <<conv, remote, cfg, key_to_page, label_to_page, path_to_page, created,
                   returned, faulted, last, calls, written>>

\* publish_all where cfg.docs_dir does not exist: bootstrap_existing runs first
PublishAllStartNoDocsDir(pass_no) ==
    /\ pc = "idle"
    /\ key_to_page' \in IndexOver(AllKeys,
            [k \in AllKeys |-> {p \in Discovered(remote, cfg) : src_key(remote, p) = k}])
    /\ label_to_page' \in IndexOver(LegacyLabels,
            [lb \in LegacyLabels |-> {p \in Discovered(remote, cfg) : lb \in remote[p].labels}])
    /\ path_to_page' = [p \in Paths |-> key_to_page'[file_key(p)]]
    /\ remote' = bootstrap_cleanup(remote, cfg, TRUE)
    /\ pc' = "skeleton"
    /\ run' = [NoRun EXCEPT !.pass_no = pass_no, !.boot_k2p = key_to_page',
                            !.boot_l2p = label_to_page', !.boot_p2p = path_to_page',
                            !.docs_dir = FALSE, !.remote_calls = TRUE]
    /\ last' = NoCall
    /\ UNCHANGED <<conv, cfg, created, returned, faulted, calls, written>>

\* publish_all, first statement: bootstrap_existing of a fresh publisher
PublishAllStart(pass_no, paths_file, disk) ==
    /\ pc = "idle"
    /\ key_to_page' \in IndexOver(AllKeys,
            [k \in AllKeys |-> {p \in Discovered(remote, cfg) : src_key(remote, p) = k}])
    /\ label_to_page' \in IndexOver(LegacyLabels,
            [lb \in LegacyLabels |-> {p \in Discovered(remote, cfg) : lb \in remote[p].labels}])
    /\ path_to_page' = [p \in Paths |-> key_to_page'[file_key(p)]]
    /\ remote' = bootstrap_cleanup(remote, cfg, TRUE)
    /\ pc' = "skeleton"
    /\ run' = [NoRun EXCEPT !.pass_no = pass_no, !.paths_file = paths_file, !.disk = disk,
                            !.boot_k2p = key_to_page', !.boot_l2p = label_to_page',
                            !.boot_p2p = path_to_page', !.remote_calls = TRUE]
    /\ last' = NoCall
    /\ UNCHANGED <<conv, cfg, created, returned, faulted, calls, written>>

\* publish_file(md_path, pass_no), first statement: bootstrap_existing
PublishFileStart(pass_no, md_path) ==
    /\ pc = "idle"
    /\ key_to_page' \in IndexOver(AllKeys,
            [k \in AllKeys |-> {p \in Discovered(remote, cfg) : src_key(remote, p) = k}])
    /\ label_to_page' \in IndexOver(LegacyLabels,
            [lb \in LegacyLabels |-> {p \in Discovered(remote, cfg) : lb \in remote[p].labels}])
    /\ path_to_page' = [p \in Paths |-> key_to_page'[file_key(p)]]
    /\ remote' = bootstrap_cleanup(remote, cfg, TRUE)
    /\ pc' = "skeleton"
    /\ run' = [NoRun EXCEPT !.pass_no = pass_no, !.md_path = md_path, !.disk = Paths,
                            !.boot_k2p = key_to_page', !.boot_l2p = label_to_page',
                            !.boot_p2p = path_to_page', !.remote_calls = TRUE]
    /\ last' = NoCall
    /\ UNCHANGED <<conv, cfg, created, returned, faulted, calls, written>>

\* publish_file: the one document it publishes (no rename information); a
\* path outside docs/<domain>/<section> known to the skeleton ends the run
file_entry(md_path, section_pages) ==
    IF /\ md_path[1] = "docs" /\ Len(md_path) - 1 >= 3
       /\ <<md_path[2], md_path[3]>> \in DOMAIN section_pages
    THEN <<Entry(md_path, section_pages, <<>>)>>
    ELSE <<>>

\* ensure_domain_and_sections for docs/d and docs/d/s (no index files), then
\* the selection of the entries of publish_all
EnsureDomainAndSections ==
    /\ pc = "skeleton"
    /\ run.docs_dir
    /\ \E r1 \in {ensure_page(remote, key_to_page, label_to_page, cfg, dir_key(DomainDir),
                             domain_title_map["d"], ROOT, Body(dir_key(DomainDir)),
                             {<<"dir">>}, {}, "DOCS", Env("none", TRUE))} :
       \E r2 \in {IF r1.raised # "none" THEN r1
                  ELSE ensure_page(r1.remote, r1.key_to_page, r1.label_to_page, cfg,
                                   dir_key(SectionDir), "Dom · Sec", r1.ret,
                                   Body(dir_key(SectionDir)), {<<"dir">>, <<"section">>},
                                   {}, "DOCS", Env("none", TRUE))} :
       \E es \in {IF r2.raised # "none" THEN <<>>
                  ELSE IF run.md_path # <<>>
                  THEN file_entry(run.md_path, (<<"d", "s">> :> r2.ret))
                  ELSE entries_of(run.paths_file, run.disk, (<<"d", "s">> :> r2.ret))} :
          /\ remote' = r2.remote
          /\ key_to_page' = r2.key_to_page
          /\ label_to_page' = r2.label_to_page
          /\ created' = NoteCreated(NoteCreated(created, dir_key(DomainDir), r1),
                                    dir_key(SectionDir), r2)
          /\ returned' = IF r1.raised # "none" THEN returned
                         ELSE NoteReturned(NoteReturned(returned, dir_key(DomainDir), r1),
                                           dir_key(SectionDir), r2)
          /\ last' = IF r1.raised # "none"
                     THEN CallRecord(dir_key(DomainDir), "Dom", "DOCS", "none", r1)
                     ELSE CallRecord(dir_key(SectionDir), "Dom · Sec", "DOCS", "none", r2)
          /\ run' = [run EXCEPT !.entries = es, !.i = 1]
          /\ pc' = IF r2.raised # "none" THEN "aborted"
                   ELSE IF run.md_path # <<>>
                   THEN (IF es = <<>> THEN "aborted"
                         ELSE IF run.pass_no = 1 THEN "phaseA" ELSE "phaseB")
                   ELSE IF es = <<>> THEN "done" ELSE "phaseA"
    /\ UNCHANGED <<conv, cfg, path_to_page, faulted, calls, written>>

\* ensure_domain_and_sections where cfg.docs_dir does not exist: SystemExit
DocsDirNotFound ==
    /\ pc = "skeleton"
    /\ ~run.docs_dir
    /\ pc' = "exit"
    /\ run' = [run EXCEPT !.exit = "Docs dir not found"]
    /\ UNCHANGED <<conv, remote, cfg, key_to_page, label_to_page, path_to_page, created,
                   returned, faulted, last, calls, written>>

\* (mutant) the old page id is never pre-claimed under the new key
pre_claim_never(k2p, e) ==
    k2p

\* publish_entry, before ensure_page: a rename whose old key is in the index
\* and whose new key is not claims the old page id under the new key
pre_claim(k2p, e) ==
    IF /\ e.rename_from_key # NoKey /\ e.rename_from_key # e.key
       /\ k2p[e.rename_from_key] # NoPage /\ k2p[e.key] = NoPage
    THEN [k2p EXCEPT ![e.key] = k2p[e.rename_from_key]]
    ELSE k2p

\* conv.convert(e.md_text, current_path): the body, with its link rendered
convert(e, with_resolver, p2p, base_url) ==
    [src |-> e.key,
     link |-> _rewrite_links(e.md_text.href, with_resolver, p2p, base_url, e.current_path)]

\* publish_entry, after ensure_page: path_to_page and the rename clean-up
record_path(p2p, e, page_id) ==
    LET p1 == [p2p EXCEPT ![e.current_path] = page_id]
    IN  IF e.rename_from_path # <<>> THEN [p1 EXCEPT ![e.rename_from_path] = NoPage] ELSE p1

drop_old_key(k2p, e, page_id) ==
    IF /\ e.rename_from_key # NoKey /\ e.rename_from_key # e.key
       /\ k2p[e.rename_from_key] = page_id
    THEN [k2p EXCEPT ![e.rename_from_key] = NoPage]
    ELSE k2p

\* publish_entry(e, conv) for the entry the loop is at; with_resolver: conv is
\* conv_links.  An exception of ensure_page ends the run.
publish_entry(with_resolver, next_pc) ==
    \E e \in {run.entries[run.i]} :
    \E k1 \in {pre_claim(key_to_page, e)} :
    \E storage \in {convert(e, with_resolver, path_to_page, cfg.base_url)} :
    \E r \in {ensure_page(remote, k1, label_to_page, cfg, e.key, e.title, e.parent_id,
                          storage, {<<"md">>}, extract_tag_labels(e.md_text.tags),
                          e.collision_prefix, Env("none", TRUE))} :
       /\ remote' = r.remote
       /\ label_to_page' = r.label_to_page
       /\ created' = NoteCreated(created, e.key, r)
       /\ returned' = NoteReturned(returned, e.key, r)
       /\ last' = CallRecord(e.key, e.title, e.collision_prefix, "none", r)
       /\ IF r.raised # "none"
          THEN /\ key_to_page' = r.key_to_page
               /\ pc' = "aborted"
               /\ UNCHANGED <<path_to_page, written, run>>
          ELSE /\ key_to_page' = drop_old_key(r.key_to_page, e, r.ret)
               /\ path_to_page' = record_path(path_to_page, e, r.ret)
               /\ written' = [written EXCEPT ![e.current_path] =
                                 [pid |-> r.ret, storage |-> storage]]
               /\ pc' = IF run.i < Len(run.entries) THEN pc ELSE next_pc
               /\ run' = [run EXCEPT !.i = IF run.i < Len(run.entries) THEN run.i + 1 ELSE 1]
       /\ UNCHANGED <<conv, cfg, faulted, calls>>

\* pass 1, and Phase A of pass 2: publish_entry(e, self.conv_plain)
PublishEntryPlain ==
    /\ pc = "phaseA"
    /\ publish_entry(FALSE, IF run.pass_no = 1 THEN "done" ELSE "phaseB")

\* Phase B of pass 2: publish_entry(e, conv_links)
PublishEntryLinks ==
    /\ pc = "phaseB"
    /\ publish_entry(TRUE, "done")

NextPublish ==
    \/ \E pn \in {1, 2}, pf \in PathsFiles, d \in Disks : PublishAllStart(pn, pf, d)
    \/ \E pn \in {1, 2}, f \in Paths : PublishFileStart(pn, f)
    \/ \E m \in RequiredSettings : LoadCfgFails(m)
    \/ \E pn \in {1, 2} : PublishAllStartNoDocsDir(pn)
    \/ DocsDirNotFound
    \/ EnsureDomainAndSections
    \/ PublishEntryPlain
    \/ PublishEntryLinks

SpecPublish == InitPublish /\ [][NextPublish]_vars

----------------------------------------------------------------------------
(* The converter as a process: one call on one input                       *)

\* the call that is made and its arguments
StripInput(t) == [op |-> "input", fn |-> "strip_front_matter", md |-> t]
NormalizeInput(b, h, m) == [op |-> "input", fn |-> "_normalize_markdown", body |-> b, numbering |-> h, max_level |-> m]
PublishFileInput(b) == [op |-> "input", fn |-> "publish_file", body |-> b]
ConvertInput(t, toc, css) == [op |-> "input", fn |-> "convert", md |-> t, opts |-> ConvOpts(toc, css)]

InitConvert ==
    /\ \/ \E t \in FmTexts : WellFormedText(t) /\ conv = StripInput(t)
       \/ \E b \in NormBodies : conv = NormalizeInput(b, FALSE, 3)
       \/ \E b \in NormBodies, m \in MaxLevels : conv = NormalizeInput(b, TRUE, m)
       \/ \E t \in FmTexts, toc \in BOOLEAN, css \in BOOLEAN :
             WellFormedText(t) /\ conv = ConvertInput(t, toc, css)
       \/ \E b \in TitleBodies : conv = PublishFileInput(b)
    /\ remote = <<>>
    /\ created = [k \in AllKeys |-> {}]
    /\ returned = [k \in AllKeys |-> {}]
    /\ cfg = Cfg(FALSE)
    /\ key_to_page = [k \in AllKeys |-> NoPage]
    /\ label_to_page = [lb \in LegacyLabels |-> NoPage]
    /\ path_to_page = [p \in Paths |-> NoPage]
    /\ pc = "idle"
    /\ faulted = FALSE
    /\ last = NoCall
    /\ calls = 0
    /\ run = NoRun
    /\ written = [p \in Paths |-> NotWritten]

\* strip_front_matter(md)
StripFrontMatter ==
    /\ conv.op = "input"
    /\ conv.fn = "strip_front_matter"
    /\ conv' = [op |-> "strip_front_matter", md |-> conv.md, out |-> strip_front_matter(conv.md)]
    /\ UNCHANGED <<remote, cfg, key_to_page, label_to_page, path_to_page, pc, created,
                   returned, faulted, last, calls, run, written>>

\* MdToConfluenceStorage._normalize_markdown(body)
NormalizeMarkdown ==
    /\ conv.op = "input"
    /\ conv.fn = "_normalize_markdown"
    /\ conv' = [op |-> "_normalize_markdown", body |-> conv.body, numbering |-> conv.numbering,
                max_level |-> conv.max_level,
                out |-> _normalize_markdown(conv.body, conv.numbering, conv.max_level)]
    /\ UNCHANGED <<remote, cfg, key_to_page, label_to_page, path_to_page, pc, created,
                   returned, faulted, last, calls, run, written>>

\* MdToConfluenceStorage.convert(md_text)
Convert ==
    /\ conv.op = "input"
    /\ conv.fn = "convert"
    /\ conv' = [op |-> "convert", md |-> conv.md, opts |-> conv.opts,
                out |-> convert_md(conv.md, conv.opts)]
    /\ UNCHANGED <<remote, cfg, key_to_page, label_to_page, path_to_page, pc, created,
                   returned, faulted, last, calls, run, written>>

\* publish_file on a text without front matter: the title is guessed from
\* the text, then the same text is converted
GuessTitleAndConvert ==
    /\ conv.op = "input"
    /\ conv.fn = "publish_file"
    /\ conv' = [op |-> "publish_file", body |-> conv.body, title |-> guess_title_md(conv.body),
                out |-> _normalize_markdown(conv.body, TRUE, 3)]
    /\ UNCHANGED <<remote, cfg, key_to_page, label_to_page, path_to_page, pc, created,
                   returned, faulted, last, calls, run, written>>

NextConvert ==
    \/ StripFrontMatter
    \/ NormalizeMarkdown
    \/ Convert
    \/ GuessTitleAndConvert

SpecConvert == InitConvert /\ [][NextConvert]_vars

----------------------------------------------------------------------------
(* The link resolver as the converter calls it: link_resolver(href,        *)
(* current_path) against the publisher's path_to_page and cfg.base_url     *)

HrefPaths ==
    {<<>>, <<"b.md">>, <<"..", "s", "b.md">>, <<".", "c.md">>, <<"x.md">>, <<"b.txt">>,
     <<"docs", "d", "s", "b.md">>}
Hrefs == {Href(sc, ab, pt, fr) : sc \in {"", "https"}, ab \in BOOLEAN, pt \in HrefPaths, fr \in {"", "sec"}}
CurrentPaths == {<<>>, PathA}
ResolveCfgs == {[Cfg(FALSE) EXCEPT !.base_url = BaseUrl(h, cp)] : h \in Hosts, cp \in ContextPaths}

ResolveInput(href, current_path) == [op |-> "input", fn |-> "_link_resolver", href |-> href, current_path |-> current_path]

RewriteInput(href, current_path, with_resolver) == [op |-> "input", fn |-> "_rewrite_links", href |-> href, current_path |-> current_path, with_resolver |-> with_resolver]

InitResolve ==
    /\ \/ \E h \in Hrefs, cur \in CurrentPaths : conv = ResolveInput(h, cur)
       \/ \E h \in Hrefs, cur \in CurrentPaths, w \in BOOLEAN : conv = RewriteInput(h, cur, w)
    /\ path_to_page \in [Paths -> {NoPage, 1}]
    /\ cfg \in ResolveCfgs
    /\ remote = <<>>
    /\ created = [k \in AllKeys |-> {}]
    /\ returned = [k \in AllKeys |-> {}]
    /\ key_to_page = [k \in AllKeys |-> NoPage]
    /\ label_to_page = [lb \in LegacyLabels |-> NoPage]
    /\ pc = "idle"
    /\ faulted = FALSE
    /\ last = NoCall
    /\ calls = 0
    /\ run = NoRun
    /\ written = [p \in Paths |-> NotWritten]

\* DocsPublisher._link_resolver(href, current_path)
LinkResolver ==
    /\ conv.op = "input"
    /\ conv.fn = "_link_resolver"
    /\ conv' = [op |-> "_link_resolver", href |-> conv.href, current_path |-> conv.current_path,
                out |-> _link_resolver(path_to_page, cfg.base_url, conv.href, conv.current_path)]
    /\ UNCHANGED <<remote, cfg, key_to_page, label_to_page, path_to_page, pc, created,
                   returned, faulted, last, calls, run, written>>

\* MdToConfluenceStorage._rewrite_links(soup, current_path) on one <a>, the
\* converter built with or without link_resolver
RewriteLinks ==
    /\ conv.op = "input"
    /\ conv.fn = "_rewrite_links"
    /\ conv' = [op |-> "_rewrite_links", href |-> conv.href, current_path |-> conv.current_path,
                with_resolver |-> conv.with_resolver,
                out |-> _rewrite_links(conv.href, conv.with_resolver, path_to_page, cfg.base_url,
                                       conv.current_path)]
    /\ UNCHANGED <<remote, cfg, key_to_page, label_to_page, path_to_page, pc, created,
                   returned, faulted, last, calls, run, written>>

NextResolve ==
    \/ LinkResolver
    \/ RewriteLinks

SpecResolve == InitResolve /\ [][NextResolve]_vars

----------------------------------------------------------------------------
(* The selection of the documents of publish_all in change-list mode       *)

SelectLines ==
    {Change("A", PathA, <<>>), Change("M", PathB, <<>>), Change("D", PathC, <<>>),
     Change("R", PathB, PathC), Change("R", PathC, PathMissing),
     Change("M", PathIndex, <<>>), Change("A", PathUnknownDomain, <<>>),
     Change("M", PathShort, <<>>), Change("M", PathMissing, <<>>), Change("M", PathTxt, <<>>)}

RECURSIVE SelectLists(_)
SelectLists(n) ==
    IF n = 0 THEN {<<>>}
    ELSE LET shorter == SelectLists(n - 1)
         IN  shorter \cup {Append(l, c) : l \in {x \in shorter : Len(x) = n - 1},
                                          c \in SelectLines}

\* the working trees: every file but x.md, with or without b.md
AllFiles == {SortedPaths[i] : i \in DOMAIN SortedPaths}
SelectDisks == {AllFiles \ {PathMissing}, AllFiles \ {PathMissing, PathB}}

\* section_pages as ensure_domain_and_sections returns it: the sections of the
\* configured domains
SectionPages == (<<"d", "s">> :> 2)

InitSelect ==
    /\ \E l \in SelectLists(MaxChanges), d \in SelectDisks :
          run = [NoRun EXCEPT !.pass_no = 1, !.paths_file = l, !.disk = d]
    /\ pc = "skeleton"
    /\ remote = <<>>
    /\ cfg = Cfg(FALSE)
    /\ created = [k \in AllKeys |-> {}]
    /\ returned = [k \in AllKeys |-> {}]
    /\ key_to_page = [k \in AllKeys |-> NoPage]
    /\ label_to_page = [lb \in LegacyLabels |-> NoPage]
    /\ path_to_page = [p \in Paths |-> NoPage]
    /\ faulted = FALSE
    /\ last = NoCall
    /\ calls = 0
    /\ written = [p \in Paths |-> NotWritten]
    /\ conv = NoConv

\* publish_all from the change list to the list of entries
SelectEntries ==
    /\ pc = "skeleton"
    /\ run.i = 0
    /\ run' = [run EXCEPT !.entries = entries_of(run.paths_file, run.disk, SectionPages), !.i = 1]
    /\ pc' = "phaseA"
    /\ UNCHANGED <<remote, cfg, key_to_page, label_to_page, path_to_page, created,
                   returned, faulted, last, calls, written, conv>>

NextSelect == SelectEntries

SpecSelect == InitSelect /\ [][NextSelect]_vars

----------------------------------------------------------------------------
(* _parse_paths_file as a process: one call on the lines of a change list  *)

\* A line is what line.split() gives: tokens, each a word (an operation, a
\* comment sign, anything that is no path) or a path (its segments).
Word(w) == [word |-> w, path |-> <<>>]
PathTok(p) == [word |-> "", path |-> p]
PathOutside == <<"src", "d", "s", "a.md">>
PathSite == <<"site", "d", "s", "a.md">>
PathWork == <<"work", "docs", "d", "s", "a.md">>
ParseLines ==
    {<<>>,
     <<Word("#"), Word("changed")>>,
     <<PathTok(<<".">> \o PathA)>>,
     <<PathTok(PathTxt)>>,
     <<PathTok(PathWork)>>,
     <<Word("M"), PathTok(PathB)>>,
     <<Word("A"), PathTok(PathSite)>>,
     <<Word("D"), PathTok(PathC)>>,
     <<Word("R"), PathTok(PathB), PathTok(PathC)>>,
     <<Word("R100"), PathTok(PathA), PathTok(PathOutside)>>,
     <<Word("??"), PathTok(PathA)>>,
     <<Word("M")>>,
     <<Word("M"), PathTok(<<"docs", "..", "src", "d", "s", "a.md">>)>>}

RECURSIVE ParseLists(_)
ParseLists(n) ==
    IF n = 0 THEN {<<>>}
    ELSE LET shorter == ParseLists(n - 1)
         IN  shorter \cup {Append(l, c) : l \in {x \in shorter : Len(x) = n - 1},
                                          c \in ParseLines}

\* docs_dir as configured
DocsDirs == {<<"docs">>, <<"site">>, <<"work", "docs">>}

\* the tests on tokens: line.startswith("#"), ".md" in parts[0],
\* op.startswith("R")
StartsWithHash(tok) == tok.word = "#"
ContainsMd(tok) == \E i \in DOMAIN tok.path : IsMdName(tok.path[i])
StartsWithR(tok) == tok.word \in {"R", "R100"}

\* (mutant) the name of docs_dir does not matter
is_under_docs_strict(p, docs_dir) ==
    LET docs_root == _norm_posix(docs_dir)
    IN  Len(p) >= Len(docs_root) /\ SubSeq(p, 1, Len(docs_root)) = docs_root

\* is_under_docs(p): p is docs_root or below it, or below "docs" when that
\* is the name of docs_dir
is_under_docs(p, docs_dir) ==
    LET docs_root == _norm_posix(docs_dir)
    IN  \/ Len(p) >= Len(docs_root) /\ SubSeq(p, 1, Len(docs_root)) = docs_root
        \/ docs_dir[Len(docs_dir)] = "docs" /\ Len(p) >= 2 /\ p[1] = "docs"

\* the first loop of _parse_paths_file for one line: the records it appends
parse_line(parts) ==
    IF parts = <<>> \/ StartsWithHash(parts[1]) THEN <<>>
    ELSE IF Len(parts) = 1 /\ ContainsMd(parts[1])
    THEN <<Change("M", _norm_posix(parts[1].path), <<>>)>>
    ELSE IF StartsWithR(parts[1]) /\ Len(parts) >= 3
    THEN <<Change("R", _norm_posix(parts[2].path), _norm_posix(parts[3].path))>>
    ELSE IF parts[1].word \in {"A", "M", "D"} /\ Len(parts) >= 2
    THEN <<Change(parts[1].word, _norm_posix(parts[2].path), <<>>)>>
    ELSE <<>>

\* _parse_paths_file(paths_file, docs_dir): the records of the lines, then
\* the filter
_parse_paths_file(lines, docs_dir) ==
    LET out == Concat([i \in DOMAIN lines |-> parse_line(lines[i])])
    IN  SelectSeq(out, LAMBDA ch :
           IF ch.op = "R"
           THEN ch.new_path # <<>> /\ is_under_docs(ch.new_path, docs_dir)
                                   /\ is_under_docs(ch.path, docs_dir)
           ELSE is_under_docs(ch.path, docs_dir))

ParseInput(lines, docs_dir) == [op |-> "input", fn |-> "_parse_paths_file", lines |-> lines, docs_dir |-> docs_dir]

InitParse ==
    /\ \E l \in ParseLists(MaxChanges), d \in DocsDirs : conv = ParseInput(l, d)
    /\ remote = <<>>
    /\ created = [k \in AllKeys |-> {}]
    /\ returned = [k \in AllKeys |-> {}]
    /\ cfg = Cfg(FALSE)
    /\ key_to_page = [k \in AllKeys |-> NoPage]
    /\ label_to_page = [lb \in LegacyLabels |-> NoPage]
    /\ path_to_page = [p \in Paths |-> NoPage]
    /\ pc = "idle"
    /\ faulted = FALSE
    /\ last = NoCall
    /\ calls = 0
    /\ run = NoRun
    /\ written = [p \in Paths |-> NotWritten]

\* _parse_paths_file(paths_file, docs_dir)
ParsePathsFile ==
    /\ conv.op = "input"
    /\ conv.fn = "_parse_paths_file"
    /\ conv' = [op |-> "_parse_paths_file", lines |-> conv.lines, docs_dir |-> conv.docs_dir,
                out |-> _parse_paths_file(conv.lines, conv.docs_dir)]
    /\ UNCHANGED <<remote, cfg, key_to_page, label_to_page, path_to_page, pc, created,
                   returned, faulted, last, calls, run, written>>

NextParse == ParsePathsFile

SpecParse == InitParse /\ [][NextParse]_vars

----------------------------------------------------------------------------
(* Claims about the reconciliation engine                                  *)

Called == last.key # NoKey
TargetOf(c) ==
    IF c.hits[1] # NoPage THEN c.hits[1]
    ELSE IF c.hits[2] # NoPage THEN c.hits[2]
    ELSE c.hits[3]
CreateAttempts(c) == SelectSeq(c.att, LAMBDA x : x.op = "create")
UpdateAttempts(c) == SelectSeq(c.att, LAMBDA x : x.op = "update")

\* C1: for every key, all the ensure_page calls made for it call create_page
\* at most once in total and return one and the same page id.
C1_OnePagePerKey ==
    \A k \in AllKeys : Cardinality(created[k]) <= 1 /\ Cardinality(returned[k]) <= 1

\* C2: the lookups are consulted in the order primary index, legacy index,
\* title adoption, create: the first one that matches is the only page the
\* call writes to and returns, and create_page is attempted only when all
\* three missed.
C2_LookupOrder ==
    Called =>
        /\ TargetOf(last) # NoPage =>
              /\ \A i \in DOMAIN last.att :
                    last.att[i].op = "update" /\ last.att[i].pid = TargetOf(last)
              /\ last.ret \in {NoPage, TargetOf(last)}
              /\ last.created = NoPage
        /\ (\E i \in DOMAIN last.att : last.att[i].op = "create") =>
              last.hits = <<NoPage, NoPage, NoPage>>
        /\ last.hits = <<NoPage, NoPage, NoPage>> => last.att[1].op = "create"

\* witness of C2: a call whose key missed both indexes, was matched by the
\* title search and came back with the adopted page
C2_Witness ==
    /\ Called /\ last.hits[1] = NoPage /\ last.hits[2] = NoPage
    /\ last.hits[3] # NoPage /\ last.ret = last.hits[3]

\* C3: an ensure_page call whose wanted title is the title of an existing
\* page that belongs to another key leaves that page as it was (body,
\* title and stored key).
C3_ExistingPageKept ==
    [][calls' = calls + 1 =>
         \A q \in PageIds(remote) :
            (/\ remote[q].title = <<last'.title>>
             /\ remote[q].prop.key \notin {NoKey, last'.key}
             /\ key_to_page[last'.key] # q)
            => (/\ remote'[q].storage = remote[q].storage
                /\ remote'[q].title = remote[q].title
                /\ remote'[q].prop = remote[q].prop)]_vars

\* C6: when a run aborted at a remote call and the publish is re-invoked from
\* bootstrap_existing, no second page is created for a key whose page the
\* aborted run had created (pages taken over by another key left aside).
C6_RetryCreatesNoSecondPage ==
    \A k \in AllKeys :
        (\A p \in created[k] : remote[p].prop.key \in {NoKey, k})
        => Cardinality(created[k]) <= 1

ClaimedCandidates(c, bare_if_empty) ==
    (IF c.title # "" \/ bare_if_empty THEN << <<c.title>> >> ELSE <<>>)
    \o (IF c.prefix # "" /\ ~StartsWith(c.title, c.prefix)
        THEN << <<c.prefix, " · ", c.title>> >> ELSE <<>>)
    \o << <<c.title, " [", _sha1(c.key)[1], "]">> >>

\* the attempts of one loop follow the listed titles in order, each one made
\* only after all the earlier ones failed with "title already exists"
InOrder(seq, listed) ==
    /\ Len(seq) <= Len(listed)
    /\ \A i \in DOMAIN seq :
          /\ seq[i].title = listed[i]
          /\ i < Len(seq) => seq[i].res = "exists"

AttemptsFollow(c, listed) ==
    /\ InOrder(CreateAttempts(c), listed)
    /\ InOrder(UpdateAttempts(c), listed)
    /\ c.att # <<>>
    /\ c.raised = "none" =>
          /\ c.att[Len(c.att)].res = "ok"
          /\ c.used = c.att[Len(c.att)].title
          /\ \A i \in 1..(Len(c.att) - 1) : c.att[i].res = "exists"

----------------------------------------------------------------------------
(* Claims about the orchestrator                                           *)

Returned == pc = "done"
ChangeList == IF run.paths_file = NoFile THEN <<>> ELSE run.paths_file
SelectedPaths == {run.entries[i].current_path : i \in DOMAIN run.entries}

\* line i of the change list is a rename old -> new, no other line names old
\* or new, and new.md is one of the documents the run publishes
SoleRename(i) ==
    LET ch == ChangeList[i]
    IN  /\ ch.op = "R"
        /\ ch.path # ch.new_path
        /\ ch.new_path \in SelectedPaths
        /\ \A j \in DOMAIN ChangeList :
              j # i => {ChangeList[j].path, ChangeList[j].new_path} \cap {ch.path, ch.new_path} = {}

RenameMoved(ch) ==
    /\ key_to_page[file_key(ch.new_path)] = run.boot_k2p[file_key(ch.path)]
    /\ key_to_page[file_key(ch.path)] = NoPage
    /\ path_to_page[ch.path] = NoPage

\* C4 (as stated): after publish_all returned for a change list with
\* `R old.md new.md`, if old.md's key resolved to page P before the run then
\* new.md's key resolves to P and old.md's key and old path resolve to nothing.
C4_RenameStability ==
    Returned =>
       \A i \in DOMAIN ChangeList :
          (SoleRename(i) /\ run.boot_k2p[file_key(ChangeList[i].path)] # NoPage)
             => RenameMoved(ChangeList[i])

\* C4 (amended): the same, for a rename that is the only line naming old.md or
\* new.md, whose new.md is published by the run, and whose new key resolved to
\* nothing before the run.
C4_RenameStabilityUnclaimed ==
    Returned =>
       \A i \in DOMAIN ChangeList :
          (/\ SoleRename(i)
           /\ run.boot_k2p[file_key(ChangeList[i].path)] # NoPage
           /\ run.boot_k2p[file_key(ChangeList[i].new_path)] = NoPage)
             => RenameMoved(ChangeList[i])

C4_Witness ==
    /\ Returned
    /\ \E i \in DOMAIN ChangeList :
          /\ SoleRename(i)
          /\ run.boot_k2p[file_key(ChangeList[i].path)] # NoPage
          /\ run.boot_k2p[file_key(ChangeList[i].new_path)] = NoPage
          /\ key_to_page[file_key(ChangeList[i].new_path)]
                = run.boot_k2p[file_key(ChangeList[i].path)]
          /\ src_key(remote, key_to_page[file_key(ChangeList[i].new_path)])
                = file_key(ChangeList[i].new_path)

\* a page that still stores key: in a property, or as its legacy label
StoresKey(p, key) ==
    \/ get_property(remote, p, PROPERTY_KEY).key = key
    \/ get_property(remote, p, SOURCE_KEY).key = key
    \/ _label_for(key) \in remote[p].labels

\* C5: when a renamed document is published and a page exists for its old key
\* (known through the property or through the legacy label), no page is
\* created for the new key, the existing page stores the new key, and no page
\* still stores the old key.  (Stated for renames whose new key resolved to
\* nothing before the run.)
C5_RenameRetargetsPage ==
    Returned =>
       \A i \in DOMAIN ChangeList :
          LET old_key == file_key(ChangeList[i].path)
              new_key == file_key(ChangeList[i].new_path)
          IN  (/\ SoleRename(i)
               /\ run.boot_k2p[new_key] = NoPage
               /\ \/ run.boot_k2p[old_key] # NoPage
                  \/ run.boot_l2p[_label_for(old_key)] # NoPage)
                 => /\ created[new_key] = {}
                    /\ \A p \in PageIds(remote) : ~StoresKey(p, old_key)

\* a relative link of document e to another Markdown document
HasMdLink(e) == e.md_text.href.scheme = "" /\ EndsWithMd(e.md_text.href.path)
LinkTarget(e) == TargetOfHref(e.md_text.href, e.current_path)

\* C7: after publish_all(pass_no=2), for selected documents A and B where A
\* links to B, the body last written for A carries the relative view URL with
\* B's page id and the original fragment.
C7_LinksBetweenSelectedResolve ==
    (Returned /\ run.pass_no = 2) =>
       \A i, j \in DOMAIN run.entries :
          LET a == run.entries[i]
              b == run.entries[j]
          IN  (HasMdLink(a) /\ LinkTarget(a) = b.current_path)
                 => written[a.current_path].storage.link
                       = Link(TRUE, Url(<<"wiki">>, written[b.current_path].pid,
                                        a.md_text.href.frag), NoHref, FALSE)

Unresolved(e) ==
    written[e.current_path].storage.link = Link(FALSE, NoUrl, e.md_text.href, TRUE)

----------------------------------------------------------------------------
(* Claims about failures and post-write side effects of ensure_page        *)

\* C11: a create_page or update_page failure that is not a title-already-
\* exists failure is raised out of ensure_page at once: the failed attempt is
\* the only one, and the call writes nothing to the remote or to the indexes.
C11_OtherFailureRaisedAtOnce ==
    [][(~faulted /\ last'.fault = "write")
          => /\ last'.raised = "other"
             /\ Len(last'.att) = 1
             /\ remote' = remote
             /\ key_to_page' = key_to_page
             /\ label_to_page' = label_to_page]_vars

\* the page a successful call returned existed before the call
ExistedBefore == last'.ret \in PageIds(remote)
LabelsBefore == IF ExistedBefore THEN remote[last'.ret].labels ELSE {}
LabelsAfter == remote'[last'.ret].labels

\* C12: after every successful ensure_page call the returned page carries the
\* managed label and every caller-supplied page label; the labels added are
\* exactly those; the only labels removed are the legacy src- label of the key
\* and the deprecated md/dir/section labels.
C12_LabelsAfterWrite ==
    [][(last' # last /\ last'.key # NoKey /\ last'.raised = "none")
          => /\ cfg.managed_label \in LabelsAfter
             /\ last'.page_labels \subseteq LabelsAfter
             /\ LabelsAfter \ LabelsBefore \subseteq {cfg.managed_label} \cup last'.page_labels
             /\ LabelsBefore \ LabelsAfter
                   \subseteq {_label_for(last'.key)} \cup VISIBLE_META_LABELS]_vars

\* C13: after every successful ensure_page call the hidden source-metadata
\* property of the returned page records the key of the call, the title that
\* the successful create/update used, the hash of the key and the caller's
\* extra_labels as meta_labels.
C13_SourceMetaRecorded ==
    (Called /\ last.raised = "none")
       => get_property(remote, last.ret, PROPERTY_KEY)
             = [key |-> last.key, title |-> last.used, src_hash |-> _sha1(last.key),
                meta_labels |-> last.extra_labels]

\* a call that had to fall back to a later title candidate
C13_Witness ==
    /\ Called
    /\ last.raised = "none"
    /\ Len(last.att) >= 2
    /\ last.used # <<last.title>>
    /\ remote[last.ret].title = last.used
    /\ get_property(remote, last.ret, PROPERTY_KEY).title = last.used
    /\ get_property(remote, last.ret, PROPERTY_KEY).meta_labels = {<<"md">>}

\* C14: a failing label deletion (in bootstrap_existing or in ensure_page)
\* never aborts: bootstrap still ends with the run started, and every call of
\* ensure_page ends, returns and updates the indexes as the same call does
\* when the deletions succeed.
C14_CleanupFailureSwallowed ==
    [][/\ (last' = NoCall /\ pc # pc') => pc' = "run"
       /\ (last' # last /\ last'.key # NoKey /\ last'.fault = "none")
             => \E r \in {ensure_page(remote, key_to_page, label_to_page, cfg, last'.key,
                                      last'.title, ROOT, Body(last'.key), last'.extra_labels,
                                      last'.page_labels, last'.prefix, Env("none", TRUE))} :
                   /\ last'.raised = r.raised
                   /\ last'.ret = r.ret
                   /\ key_to_page' = r.key_to_page
                   /\ label_to_page' = r.label_to_page
                   /\ pc' = IF r.raised = "none" THEN "run" ELSE "aborted"]_vars

\* a legacy page was migrated although its label deletions failed
C14_Witness ==
    /\ Called
    /\ last.branch = "legacy"
    /\ last.raised = "none"
    /\ key_to_page[last.key] = last.ret
    /\ _label_for(last.key) \in remote[last.ret].labels
    /\ <<"md">> \in remote[last.ret].labels

----------------------------------------------------------------------------
(* Claims about what a run publishes                                       *)

\* C15: no run of publish_all or publish_file removes a page, and a Deleted
\* entry of the change list selects nothing: every entry of the run is the
\* target of a line of the change list that is not a Deleted line.
C15_DeletedEntriesNotApplied ==
    [][/\ \A p \in PageIds(remote) : p \in PageIds(remote')
       /\ run'.paths_file # NoFile
             => \A i \in DOMAIN run'.entries :
                   \E j \in DOMAIN run'.paths_file :
                      /\ run'.paths_file[j].op # "D"
                      /\ run'.entries[i].current_path
                            = (IF run'.paths_file[j].op = "R"
                               THEN run'.paths_file[j].new_path
                               ELSE run'.paths_file[j].path)]_vars

\* a run over `D b.md` alone ended and the page of b.md is still there
C15_Witness ==
    /\ pc = "done"
    /\ run.paths_file = <<Change("D", PathB, <<>>)>>
    /\ PathB \in run.disk
    /\ run.entries = <<>>
    /\ \E p \in PageIds(remote) : src_key(remote, p) = KeyB

\* the link of the body last written for p
WrittenLink(p) == written[p].storage.link

\* C16: the host of base_url is in no published link: a resolved link written
\* by a run is the URL made of the context path of base_url, a page id and the
\* fragment of the original link, and for every index state of a run two base
\* addresses that differ only in the host give the same result of
\* _link_resolver for the link of every document.
C16_HostNeverInLinks ==
    /\ \A p \in Paths :
          (written[p] # NotWritten /\ WrittenLink(p).resolved)
             => /\ WrittenLink(p).url.base = base_path_of(BaseUrl("", cfg.base_url.path))
                /\ WrittenLink(p).url.pid \in PageIds(remote)
                /\ WrittenLink(p).url.frag = md_text(p).href.frag
    /\ \A h \in Hosts, bp \in ContextPaths, cur \in Paths :
          _link_resolver(path_to_page, BaseUrl(h, bp), md_text(cur).href, cur)
             = _link_resolver(path_to_page, BaseUrl(cfg.base_url.host, bp), md_text(cur).href, cur)

\* a run under the address of the container host wrote a resolved link with a
\* fragment, and the trailing /rest/api is not in it
C16_Witness ==
    /\ Returned
    /\ cfg.base_url = BaseUrl("host.docker.internal:8090", <<"wiki", "rest", "api">>)
    /\ written[PathA] # NotWritten
    /\ WrittenLink(PathA).resolved
    /\ WrittenLink(PathA).url = Url(<<"wiki">>, path_to_page[PathB], "sec")
    /\ path_to_page[PathB] # NoPage

\* C17: a run that ended with a configuration error (the token or
\* docs_root_id is missing, or the configured docs directory does not exist)
\* has issued no remote call.
C17_ConfigErrorBeforeRemoteCalls ==
    run.exit # "" => ~run.remote_calls

----------------------------------------------------------------------------
(* Claims about the converter                                              *)

FmBlock(md) == _FRONT_MATTER_RE(md)
FmRaw(md) == SubSeq(md.lines, FmBlock(md).first, FmBlock(md).last)
ParsesToMapping(raw) == safe_load(raw).kind \in {"dict", "None"}

\* C18: strip_front_matter never raises and always returns a mapping: the
\* parsed mapping and the text after the block for a well-delimited block, the
\* empty mapping for a block that does not parse to a mapping, the empty
\* mapping and the unchanged text when there is no well-formed leading block.
C18_StripFrontMatterTotal ==
    conv.op = "strip_front_matter" =>
       /\ ~conv.out.raised
       /\ conv.out.fm.kind = "dict"
       /\ (FmBlock(conv.md).found /\ ~ParsesToMapping(FmRaw(conv.md))) => conv.out.fm.keys = {}
       /\ ~FmBlock(conv.md).found => (conv.out.fm.keys = {} /\ conv.out.body = conv.md)

\* The fenced code block a line lies in, as the Markdown of the body is read:
\* a fence line opens a block when none is open, and only a fence of the same
\* character closes it.  OpenFence is the fence open after the first i lines.
NoFence == Line(0, <<>>, "")
RECURSIVE OpenFence(_, _)
OpenFence(lines, i) ==
    IF i = 0 THEN NoFence
    ELSE LET before == OpenFence(lines, i - 1)
         IN  IF ~_FENCE_RE(lines[i]) THEN before
             ELSE IF before = NoFence THEN lines[i]
             ELSE IF before = lines[i] THEN NoFence
             ELSE before
InsideFence(lines, i) == OpenFence(lines, i - 1) # NoFence /\ OpenFence(lines, i) # NoFence
CountersBefore(steps, i) == IF i = 1 THEN <<0, 0, 0>> ELSE steps[i - 1].n

\* C19: a line inside a fenced code block is not treated as a heading by
\* _normalize_markdown: it is written out as it was read (not removed as the
\* title, not promoted, not stripped of its numbering, not numbered) and the
\* counters are the same after it as before it.
C19_FencedLinesUntouched ==
    conv.op = "_normalize_markdown" =>
       \A i \in DOMAIN conv.body :
          InsideFence(conv.body, i) =>
             /\ ~conv.out.steps[i].heading
             /\ conv.out.steps[i].out = <<conv.body[i]>>
             /\ conv.out.steps[i].n = CountersBefore(conv.out.steps, i)

\* the metadata panel is injected: the front matter names an owner
PanelInjected == HasPanelFields(conv.out.front_matter)

\* C20: when convert injects a table of contents, the output starts with the
\* metadata panel, a spacer paragraph and the container of the table of
\* contents if a panel is injected, and with the container of the table of
\* contents if none is; the panel is injected once.
C20_PanelThenToc ==
    (conv.op = "convert" /\ ~conv.out.raised /\ conv.opts.inject_toc) =>
       LET st == conv.out.storage
       IN  /\ PanelInjected => (Len(st) >= 3 /\ SubSeq(st, 1, 3) = <<"details", "spacer", "expand">>)
           /\ ~PanelInjected => (Len(st) >= 1 /\ st[1] = "expand")
           /\ \A i \in DOMAIN st : i > 1 => st[i] # "details"

\* panel and table of contents are both injected, in front of the numbering
\* CSS and the wrapped content
C20_Witness ==
    /\ conv.op = "convert"
    /\ ~conv.out.raised
    /\ conv.opts.inject_toc
    /\ PanelInjected
    /\ conv.opts.heading_numbering_css
    /\ conv.out.storage = <<"details", "spacer", "expand", "html", "div">>
    /\ Len(conv.md.lines) = MaxLines

\* the headings "## 1.1 Second" and "### 1.1 Second", and the lines of body
\* that the normalizer took as headings and wrote out
H2Second == Line(2, <<Num(<<1, 1>>, FALSE)>>, "Second")
H3Second == Line(3, <<Num(<<1, 1>>, FALSE)>>, "Second")
Numbered == conv.op = "_normalize_markdown" /\ conv.numbering
WrittenHeadings == {i \in DOMAIN conv.body : conv.out.steps[i].heading /\ conv.out.steps[i].out # <<>>}
SecondPass == _normalize_markdown(conv.out.out, TRUE, conv.max_level).steps
\* the levels whose headings are numbered (level <= 3 and level <= max_lvl)
NumberedLevel(level) == level <= 3 /\ level <= (IF conv.max_level = 2 THEN 2 ELSE 3)

\* C21 (as stated): with strip, promotion and numbering on, "## 1.1 Second"
\* is written at level 1 with the text "1.1. Second".
C21_H2SecondAtLevelOne ==
    Numbered =>
       \A i \in WrittenHeadings :
          conv.body[i] = H2Second
             => conv.out.steps[i].out = <<Line(1, <<Num(<<1, 1>>, TRUE)>>, "Second")>>

\* C21 (amended): a heading is written one level up with its manual numbering
\* replaced by the one numbering of its new level: "## 1.1 Second" at level 1
\* as "<n1>. Second", "### 1.1 Second" at level 2 as "<n1>.<n2>. Second"; and
\* a second pass over the written text leaves one numbering on every heading
\* of a numbered level.
C21_OneNumberingAtNewLevel ==
    Numbered =>
       /\ \A i \in WrittenHeadings :
             LET level == IF conv.body[i].level > 1 THEN conv.body[i].level - 1 ELSE 1
             IN  NumberedLevel(level)
                    => conv.out.steps[i].out
                          = <<Line(level, <<Num(SubSeq(conv.out.steps[i].n, 1, level), TRUE)>>, conv.body[i].text)>>
       /\ \A j \in DOMAIN SecondPass :
             (SecondPass[j].heading /\ SecondPass[j].out # <<>>)
                => Len(SecondPass[j].out[1].nums)
                      = IF NumberedLevel(SecondPass[j].out[1].level) THEN 1 ELSE 0

\* the document of the test: title, "## 1. First", "### 1.1 Second", text
C21_Witness ==
    /\ Numbered
    /\ conv.body = <<Line(1, <<>>, "Title"), Line(2, <<Num(<<1>>, TRUE)>>, "First"), H3Second, Line(0, <<>>, "text")>>
    /\ conv.out.out = <<Line(1, <<Num(<<1>>, TRUE)>>, "First"), Line(2, <<Num(<<1, 1>>, TRUE)>>, "Second"), Line(0, <<>>, "text")>>

----------------------------------------------------------------------------
(* C22: migration of a page known only by its legacy label                 *)

\* the step is an ensure_page call for key k
CallFor(k) == calls' = calls + 1 /\ last'.key = k

\* every create/update attempt of the call c is an update of page pid
OnlyUpdates(c, pid) == \A i \in DOMAIN c.att : c.att[i].op = "update" /\ c.att[i].pid = pid

\* what a call served by the legacy index does when it returns: one page
\* updated and none created, the key's legacy label and no other legacy label
\* requested for deletion, key -> page id installed, the page id returned
Migrated(k, legacy_id) ==
    /\ last'.branch = "legacy"
    /\ OnlyUpdates(last', legacy_id)
    /\ last'.created = NoPage
    /\ Len(remote') = Len(remote)
    /\ last'.dels \cap LegacyLabels = {_label_for(k)}
    /\ key_to_page'[k] = legacy_id
    /\ last'.ret = legacy_id

\* a call for a key that is in the primary index is served from it
LaterCallsHitPrimary(k) ==
    (CallFor(k) /\ key_to_page[k] # NoPage)
        => last'.branch = "primary" /\ last'.hits[1] = key_to_page[k]

\* C22 (as stated): a call for a key that misses the primary index while its
\* legacy label is in the legacy index updates that page and calls create_page
\* never, requests the deletion of exactly that legacy label, installs
\* key -> page id and returns the page id; every later call for the key is
\* served from the primary index.
C22_LegacyMigration ==
    [][\A k \in AllKeys :
          /\ (CallFor(k) /\ key_to_page[k] = NoPage /\ label_to_page[_label_for(k)] # NoPage)
                => last'.raised = "none" /\ Migrated(k, label_to_page[_label_for(k)])
          /\ LaterCallsHitPrimary(k)]_vars

\* C22 (amended): the same, unless every title candidate is taken by another
\* page: then the call raises the title-exists failure, having created no page,
\* requested no deletion and installed nothing.
C22_LegacyMigrationUnlessAllTaken ==
    [][\A k \in AllKeys :
          LET legacy_id == label_to_page[_label_for(k)]
          IN  /\ (CallFor(k) /\ key_to_page[k] = NoPage /\ legacy_id # NoPage)
                    => IF \E i \in DOMAIN last'.cands : ~TitleTaken(remote, last'.cands[i], legacy_id)
                       THEN last'.raised = "none" /\ Migrated(k, legacy_id)
                       ELSE /\ last'.raised = "exists" /\ last'.branch = "legacy"
                            /\ OnlyUpdates(last', legacy_id)
                            /\ last'.dels = {}
                            /\ remote' = remote /\ key_to_page' = key_to_page
              /\ LaterCallsHitPrimary(k)]_vars

\* a legacy page was migrated for KeyA and its legacy label is gone
C22_Witness ==
    /\ last.branch = "legacy" /\ last.key = KeyA /\ last.raised = "none"
    /\ last.ret = 1 /\ key_to_page[KeyA] = 1
    /\ _label_for(KeyA) \in last.dels
    /\ _label_for(KeyA) \notin remote[1].labels

----------------------------------------------------------------------------
(* C23: what _link_resolver returns                                        *)

Resolved == conv.op = "_link_resolver"

\* the href resolved against the directory of the current document
NormalizedTarget ==
    _norm_posix(SubSeq(conv.current_path, 1, Len(conv.current_path) - 1) \o conv.href.path)

ReturnsNothing ==
    \/ conv.href.scheme # ""
    \/ conv.href.path = <<>> /\ conv.href.frag # ""
    \/ ~EndsWithMd(conv.href.path)
    \/ Get(path_to_page, NormalizedTarget) = NoPage
    \/ conv.current_path = <<>>

----------------------------------------------------------------------------
(* C24: the primary key index is injective                                 *)

Injective(index) ==
    \A k1, k2 \in DOMAIN index :
        (k1 # k2 /\ index[k1] # NoPage) => index[k1] # index[k2]

\* C24: from injective indexes on, no two distinct keys of key_to_page map to
\* the same page id.
C24_PrimaryIndexInjective ==
    Injective(key_to_page)

----------------------------------------------------------------------------
(* C25: Phase A is complete before Phase B starts                          *)

\* publish_all(pass_no=2) is about to render its first Phase B entry
PhaseBStarts == pc = "phaseB" /\ run.pass_no = 2 /\ run.md_path = <<>> /\ run.i = 1

\* C25: when the first Phase B rendering of publish_all(pass_no=2) begins,
\* every selected entry has been published by Phase A and its path is in
\* path_to_page.
C25_PhaseACompleteBeforePhaseB ==
    PhaseBStarts =>
        \A j \in DOMAIN run.entries :
            /\ written[run.entries[j].current_path].pid # NoPage
            /\ path_to_page[run.entries[j].current_path] # NoPage

----------------------------------------------------------------------------
(* C26: path_to_page after publish_all                                     *)

\* publish_all returned normally
PublishAllReturned == pc = "done" /\ run.md_path = <<>> /\ run.exit = ""

\* C26: when publish_all returns normally, every selected entry e has
\* path_to_page[e.current_path] defined and equal to key_to_page[e.key].
C26_PathIndexComplete ==
    PublishAllReturned =>
        \A j \in DOMAIN run.entries :
            /\ path_to_page[run.entries[j].current_path] # NoPage
            /\ path_to_page[run.entries[j].current_path] = key_to_page[run.entries[j].key]

----------------------------------------------------------------------------
(* C27: both phases of pass 2 write the same page                          *)

\* the step is the Phase B publish_entry of publish_all(pass_no=2) for the
\* entry the loop is at, and it returned
PhaseBWrite ==
    /\ pc = "phaseB" /\ run.pass_no = 2 /\ run.md_path = <<>>
    /\ pc' \in {"phaseB", "done"}
    /\ (run'.i # run.i \/ pc' = "done")

\* C27: the Phase B write of a selected entry goes to the page id of its
\* Phase A write, calls create_page not again, and leaves the link-resolved
\* rendering as the body of that page.
C27_BothPhasesSamePage ==
    [][PhaseBWrite =>
          LET path == run.entries[run.i].current_path
          IN  /\ written'[path].pid = written[path].pid
              /\ last'.created = NoPage
              /\ remote'[written'[path].pid].storage = written'[path].storage]_vars

----------------------------------------------------------------------------
(* C28: the managed marker label is never deleted                          *)

HasManaged(rem, p) == cfg.managed_label \in rem[p].labels

\* C28: whatever the configured managed label, no ensure_page call requests
\* its deletion, no step removes it from a page that carries it, and the page
\* an ensure_page call returns is found by the discovery query of the next run.
C28_ManagedLabelKept ==
    [][/\ cfg.managed_label \notin last'.dels
       /\ \A p \in PageIds(remote) : HasManaged(remote, p) => HasManaged(remote', p)
       /\ (calls' = calls + 1 /\ last'.raised = "none")
             => last'.ret \in Discovered(remote', cfg)]_vars

----------------------------------------------------------------------------
(* C29: every title candidate collides                                     *)

\* the step is an ensure_page call
IsCall == calls' = calls + 1

AttemptedTitles(c) == {c.att[i].title : i \in DOMAIN c.att}
AllAttemptsCollide(c) == c.att # <<>> /\ \A i \in DOMAIN c.att : c.att[i].res = "exists"

\* C29: an ensure_page call whose every title candidate fails with the
\* title-exists failure raises that failure, having added no label, written no
\* property and changed none of key_to_page, label_to_page and path_to_page;
\* the failure is raised only after every candidate was tried.
C29_AllCandidatesCollide ==
    [][IsCall =>
          /\ AllAttemptsCollide(last')
                => /\ last'.raised = "exists"
                   /\ last'.ret = NoPage
                   /\ last'.dels = {}
                   /\ remote' = remote
                   /\ key_to_page' = key_to_page
                   /\ label_to_page' = label_to_page
                   /\ path_to_page' = path_to_page
          /\ last'.raised = "exists"
                => /\ AllAttemptsCollide(last')
                   /\ AttemptedTitles(last') = {last'.cands[i] : i \in DOMAIN last'.cands}]_vars

\* a create that found the bare title, the prefixed title and the hashed title
\* taken
C29_Witness ==
    /\ last.raised = "exists" /\ last.branch = "create"
    /\ Len(last.cands) = 3
    /\ Len(last.att) = 3
    /\ key_to_page[last.key] = NoPage
    /\ ~\E p \in PageIds(remote) : remote[p].prop.key = last.key

----------------------------------------------------------------------------
(* C30: adoption of a page found by its title                              *)

\* the step is an ensure_page call that misses both indexes
MissesIndexes == IsCall /\ last'.hits[1] = NoPage /\ last'.hits[2] = NoPage

\* the existing pages the call updated, labelled or gave a property
Touched ==
    {p \in PageIds(remote) :
        \/ remote'[p].storage # remote[p].storage \/ remote'[p].title # remote[p].title
        \/ remote'[p].labels # remote[p].labels
        \/ remote'[p].prop # remote[p].prop \/ remote'[p].prop2 # remote[p].prop2}

\* the call returned a page that existed before it: an adoption
Adopted == last'.raised = "none" /\ last'.ret \in PageIds(remote)

\* a page is touched only when adoption is enabled, the page is under the
\* root and an exact-title search for a candidate of the call finds it
TouchedOnlyUnderRoot ==
    \A p \in Touched :
        /\ cfg.adopt_existing_by_title_under_root
        /\ remote[p].under_root
        /\ \E i \in DOMAIN last'.cands : remote[p].title = last'.cands[i]

\* C30: a call that misses both indexes adopts a page found by
\* exact-title search only when title adoption is enabled and the page is under
\* the document root; a page found outside the root, or while adoption is
\* disabled, is not touched; an adoption installs the key in the primary index
\* and requests the removal of the key's legacy label.
C30_AdoptOnlyUnderRoot ==
    [][MissesIndexes =>
          /\ TouchedOnlyUnderRoot
          /\ Adopted => /\ key_to_page'[last'.key] = last'.ret
                        /\ _label_for(last'.key) \in last'.dels]_vars

----------------------------------------------------------------------------
(* C31: the documents selected in change-list mode                         *)

Selected == run.i = 1 /\ pc = "phaseA" /\ run.md_path = <<>> /\ run.paths_file # NoFile

\* the paths the change list names as the path of an Added or Modified entry
\* or as the new path of a Renamed entry
NamedPaths ==
    {run.paths_file[i].path :
        i \in {j \in DOMAIN run.paths_file : run.paths_file[j].op \in {"A", "M"}}}
    \cup {run.paths_file[i].new_path :
        i \in {j \in DOMAIN run.paths_file : run.paths_file[j].op = "R"}}

\* an existing Markdown file that is no index file, under a known
\* domain/section pair
PublishableFile(p) ==
    /\ p \in run.disk
    /\ p[Len(p)] \in MdNames
    /\ Len(p) >= 4 /\ p[1] = "docs" /\ p[2] = "d"

EntryPaths == {run.entries[i].current_path : i \in DOMAIN run.entries}

----------------------------------------------------------------------------
(* C32: the indexes built by bootstrap_existing                            *)

\* the step is bootstrap_existing of a new publisher
IsBootstrap == calls' = calls /\ pc' = "run" /\ last' = NoCall

\* the key stored in the hidden property of p, else in the secondary property
StoredKey(p) ==
    IF remote[p].prop.key # NoKey THEN remote[p].prop.key ELSE remote[p].prop2.key

\* the managed pages under the root
Managed == {p \in PageIds(remote) : remote[p].under_root /\ cfg.managed_label \in remote[p].labels}

\* C32: after bootstrap_existing, key_to_page maps the stored key of each
\* managed page under the root to that page and no other key to any page,
\* path_to_page holds the page of each key file:<path>, label_to_page maps each
\* legacy label of such a page to it; a legacy label is removed only from a page
\* with a stored key; no page is created, updated or deleted.
C32_BootstrapIndexes ==
    [][IsBootstrap =>
          /\ \A p \in Managed :
                 /\ StoredKey(p) # NoKey => key_to_page'[StoredKey(p)] = p
                 /\ \A lb \in {lb \in remote[p].labels : lb \in LegacyLabels} : label_to_page'[lb] = p
          /\ \A k \in AllKeys :
                 key_to_page'[k] # NoPage
                    => key_to_page'[k] \in Managed /\ StoredKey(key_to_page'[k]) = k
          /\ \A lb \in LegacyLabels :
                 label_to_page'[lb] # NoPage
                    => label_to_page'[lb] \in Managed /\ lb \in remote[label_to_page'[lb]].labels
          /\ \A f \in Paths : path_to_page'[f] = key_to_page'[file_key(f)]
          /\ PageIds(remote') = PageIds(remote)
          /\ \A p \in PageIds(remote) :
                 /\ remote'[p].title = remote[p].title /\ remote'[p].storage = remote[p].storage
                 /\ remote'[p].under_root = remote[p].under_root
                 /\ remote'[p].prop = remote[p].prop /\ remote'[p].prop2 = remote[p].prop2
                 /\ remote'[p].labels \subseteq remote[p].labels
                 /\ ({lb \in remote[p].labels : lb \in LegacyLabels} \ remote'[p].labels # {})
                       => p \in Managed /\ StoredKey(p) # NoKey
                 /\ remote'[p].labels # remote[p].labels => p \in Managed]_vars

\* bootstrap indexed a page by its secondary property, a page by its legacy
\* label, and removed the legacy label of a page with a stored key
C32_Witness ==
    /\ pc = "run" /\ Len(remote) = 2
    /\ remote[1].prop = NoProp /\ remote[1].prop2.key = KeyB /\ key_to_page[KeyB] = 1
    /\ path_to_page[PathB] = 1
    /\ remote[2].prop.key = KeyC /\ key_to_page[KeyC] = 2
    /\ label_to_page[_label_for(KeyC)] = 2
    /\ _label_for(KeyC) \notin remote[2].labels

----------------------------------------------------------------------------
(* C33, C34: the numbers the normalizer gives to headings                  *)

\* line i of the body is outside every fenced region; it is the heading that
\* is removed as the title; its level after promotion
Fences == {BacktickFence, TildeFence}
OutsideFence(i) == Cardinality({j \in 1..(i - 1) : conv.body[j] \in Fences}) % 2 = 0
StructuralHeading(i) == conv.body[i] \notin Fences /\ conv.body[i].level >= 1 /\ OutsideFence(i)
IsTitleHeading(i) ==
    /\ StructuralHeading(i)
    /\ conv.body[i].level = 1
    /\ \A j \in 1..(i - 1) : ~(StructuralHeading(j) /\ conv.body[j].level = 1)
Promoted(i) == IF conv.body[i].level > 1 THEN conv.body[i].level - 1 ELSE 1
\* the counters before and after line i
NBefore(i) == IF i = 1 THEN <<0, 0, 0>> ELSE conv.out.steps[i - 1].n
NAfter(i) == conv.out.steps[i].n
Seeded(c) == IF c = 0 THEN 1 ELSE c
BodyHeadings == {i \in DOMAIN conv.body : StructuralHeading(i) /\ ~IsTitleHeading(i)}

LexLess(s, t) ==
    \/ Len(s) < Len(t) /\ SubSeq(t, 1, Len(s)) = s
    \/ \E k \in 1..(IF Len(s) < Len(t) THEN Len(s) ELSE Len(t)) :
          SubSeq(s, 1, k - 1) = SubSeq(t, 1, k - 1) /\ s[k] < t[k]

\* the headings that are written with a number, and the number written
NumberedHeadings == {i \in BodyHeadings : NumberedLevel(Promoted(i))}
NumberOf(i) == Head(conv.out.steps[i].out[1].nums).n

\* C34: the numbers (N), (N,M), (N,M,K) written in front of the numbered
\* headings of a document are strictly increasing in lexicographic order
\* along the document, so no two headings get the same number.
C34_NumbersIncrease ==
    Numbered =>
       \A i, j \in NumberedHeadings :
          i < j => /\ LexLess(NumberOf(i), NumberOf(j))
                   /\ NumberOf(i) # NumberOf(j)

\* "### 1.1 Second", "#### Third", "### 1.1 Second", "## 1. First": the
\* numbers 1.1., 1.1.1., 1.2. and 2.
C34_Witness ==
    /\ Numbered
    /\ conv.body = <<H3Second, Line(4, <<>>, "Third"), H3Second, Line(2, <<Num(<<1>>, TRUE)>>, "First")>>
    /\ NumberedHeadings = 1..4
    /\ [i \in 1..4 |-> NumberOf(i)] = <<(<<1, 1>>), (<<1, 1, 1>>), (<<1, 2>>), (<<2>>)>>


----------------------------------------------------------------------------
(* C35: the page title and the heading taken out of the body               *)

\* the lines of the body that the normalizer removed as the title
RemovedAsTitle == {i \in DOMAIN conv.body : conv.out.steps[i].heading /\ conv.out.steps[i].out = <<>>}

\* C35: for a document without a front-matter title, the title guess_title
\* chooses is the text of the heading the normalizer removes from the body,
\* the first level-1 heading outside fences; when no heading is removed, none
\* is shown as the title.
C35_TitleIsRemovedHeading ==
    conv.op = "publish_file" =>
       /\ \A i \in RemovedAsTitle :
             conv.title = Title(conv.body[i].nums, conv.body[i].text)
       /\ RemovedAsTitle = {} => conv.title = Fallback


----------------------------------------------------------------------------
(* C36: the link step of the renderer                                      *)

\* what the configured resolver returns for the link (nothing without one)
ResolverReturn ==
    IF conv.with_resolver
    THEN _link_resolver(path_to_page, cfg.base_url, conv.href, conv.current_path)
    ELSE NoUrl
\* the href ends in .md (no fragment after the name) or contains .md#
LooksLikeMdLink(href) ==
    /\ href.path # <<>>
    /\ href.path[Len(href.path)] \in {"a.md", "b.md", "c.md", "x.md"}

\* C36: for a link with a non-empty href, when a resolver is configured and
\* returns a value the href is replaced by it and no marker is added;
\* otherwise the href stays as it was and the unresolved marker, carrying the
\* original href, is added exactly when the href ends in .md or contains .md#.
C36_RewriteLinks ==
    (conv.op = "_rewrite_links" /\ conv.href # NoHref) =>
       IF ResolverReturn # NoUrl
       THEN /\ conv.out.resolved
            /\ conv.out.url = ResolverReturn
            /\ ~conv.out.marker
       ELSE /\ ~conv.out.resolved
            /\ conv.out.url = NoUrl
            /\ conv.out.href = conv.href
            /\ conv.out.marker = LooksLikeMdLink(conv.href)

\* "b.md#sec" in a document whose neighbour b.md has no page: the resolver
\* returns nothing and the link is marked
C36_Witness ==
    /\ conv.op = "_rewrite_links"
    /\ conv.with_resolver
    /\ conv.current_path = PathA
    /\ conv.href = Href("", FALSE, <<"b.md">>, "sec")
    /\ path_to_page[PathB] = NoPage
    /\ conv.out = Link(FALSE, NoUrl, conv.href, TRUE)


----------------------------------------------------------------------------
(* C37: hrefs with a leading "/"                                           *)

\* C37: an href "/<path>.md" is resolved against the repository root:
\* _link_resolver returns the URL of the page indexed under <path>.md,
\* whatever the directory of the current document.
C37_RootRelativeHref ==
    ( /\ conv.op = "_link_resolver"
      /\ conv.current_path # <<>>
      /\ conv.href.abs
      /\ conv.href.scheme = ""
      /\ _norm_posix(conv.href.path) \in Paths
      /\ path_to_page[_norm_posix(conv.href.path)] # NoPage )
    => /\ conv.out # NoUrl
       /\ conv.out.pid = path_to_page[_norm_posix(conv.href.path)]
       /\ conv.out.frag = conv.href.frag


----------------------------------------------------------------------------
(* C38: the change list, line by line                                      *)

\* the kinds of line the claim names
IsBlankOrComment(line) == line = <<>> \/ line[1].word = "#"
IsBarePath(line) == Len(line) = 1 /\ line[1].path # <<>>
IsStatusLine(line) == Len(line) >= 2 /\ line[1].word \in {"A", "M", "D"} /\ line[2].path # <<>>
IsRenameLine(line) ==
    /\ Len(line) >= 3
    /\ line[1].word \in {"R", "R100"}
    /\ line[2].path # <<>>
    /\ line[3].path # <<>>
NamesMd(p) == p[Len(p)] \in MdNames \cup IndexNames
Below(p, dir) == Len(p) >= Len(dir) /\ SubSeq(p, 1, Len(dir)) = dir
BelowOrDocs(p, dir) == Below(p, dir) \/ (dir[Len(dir)] = "docs" /\ Len(p) >= 2 /\ p[1] = "docs")

\* the record of a line as the claim states it, and with a bare path taken
\* only when it names a .md file
RecordAsStated(line) ==
    IF IsBlankOrComment(line) THEN <<>>
    ELSE IF IsBarePath(line) THEN <<Change("M", _norm_posix(line[1].path), <<>>)>>
    ELSE IF IsStatusLine(line) THEN <<Change(line[1].word, _norm_posix(line[2].path), <<>>)>>
    ELSE IF IsRenameLine(line)
    THEN <<Change("R", _norm_posix(line[2].path), _norm_posix(line[3].path))>>
    ELSE <<>>
RecordOfLine(line) ==
    IF IsBarePath(line) /\ ~NamesMd(line[1].path) THEN <<>> ELSE RecordAsStated(line)
KeptAsStated(ch) ==
    Below(ch.path, conv.docs_dir) /\ (ch.op = "R" => Below(ch.new_path, conv.docs_dir))
Kept(ch) ==
    BelowOrDocs(ch.path, conv.docs_dir) /\ (ch.op = "R" => BelowOrDocs(ch.new_path, conv.docs_dir))

----------------------------------------------------------------------------
(* C39: what cleanup_managed deletes                                       *)

IsCleanup == pc = "idle" /\ pc' = "done" /\ conv'.op = "cleanup"
ChangedPages == {p \in PageIds(remote) : remote'[p] # remote[p]}

\* C39: cleanup_managed.main deletes pages only when delete is requested and
\* list-only is not, and then only pages that the query for the managed label
\* under the root returned; otherwise it changes nothing on the remote, and it
\* never creates or rewrites a page.
C39_CleanupDeletesOnlyManaged ==
    [][IsCleanup =>
          /\ PageIds(remote') = PageIds(remote)
          /\ \A p \in ChangedPages :
                /\ conv'.delete /\ ~conv'.list_only
                /\ remote[p].under_root
                /\ cfg.managed_label \in remote[p].labels
                /\ remote'[p] = Gone
          /\ {conv'.deleted[i] : i \in DOMAIN conv'.deleted} = ChangedPages
          /\ (~(conv'.delete /\ ~conv'.list_only) => remote' = remote)
      ]_vars

\* a run with --delete over a tree of a managed page under the root and a
\* page without the managed label: the first is gone, the other is as it was
C39_Witness ==
    /\ conv.op = "cleanup"
    /\ conv.delete /\ ~conv.list_only
    /\ conv.pages = <<1>>
    /\ conv.deleted = <<1>>
    /\ Len(remote) = 2
    /\ remote[1] = Gone
    /\ remote[2] = UnmanagedPage(dir_key(SectionDir))

============================================================================
